---- MODULE Spec2Model ----
(***************************************************************************)
(* Model of the statekit interpreter (interpreter.go) over the IR of       *)
(* internal/ir.  The interpreter is run on three fixed machines: "hier", a *)
(* hierarchy with nested compound states, shallow and deep history and a   *)
(* delayed transition owned by a compound state; "par", a parallel state   *)
(* with two compound regions nested in a compound state; and "timed", a    *)
(* parallel state with delayed transitions.  Every public operation and    *)
(* every timer callback holds the interpreter mutex for its whole          *)
(* duration, so each is one atomic action.                                 *)
(***************************************************************************)
EXTENDS Integers, Sequences, FiniteSets, TLC

VARIABLES
    machine,          \* i.machine, the MachineConfig the interpreter was built for
    Value,            \* i.state.Value
    Context,          \* i.state.Context
    ActiveInParallel, \* i.state.ActiveInParallel
    started,          \* i.started
    shallowHistory,   \* i.shallowHistory
    deepHistory,      \* i.deepHistory
    timers,           \* i.timers: timer key -> timer
    currentParallel,  \* i.currentParallel
    armed,            \* timers created by time.AfterFunc that have neither fired nor been stopped
    fired,            \* timers that fired: their callback waits for i.mu
    trace,            \* executeActions calls of the last operation, in order
    timerLog,         \* time.AfterFunc and timer.Stop calls of the last operation, in order,
                      \* each with the length of trace at the time of the call
    last,             \* what the last operation was and the state it started from
    exitedSince,      \* timer-owning states that were exited and have not been entered since
    leftFrom,         \* per compound state with a history child, the leaf that was
                      \* current when it was last exited
    preStop,          \* timers created before the last Stop whose callback may still run
    orphaned,         \* timers whose state was exited, or was found inactive after an
                      \* operation, since they were scheduled, and whose callback may still run
    lifecycle,        \* Unstarted, Running or Stopped: Running from the first Start,
                      \* Stopped from the first Stop of a running interpreter
    walk,             \* the IR query in progress: the loop of GetAncestors or the
                      \* recursion of GetInitialLeaf, and the states it has been at
    snapshot,         \* the value a State() call returned, and whether its
                      \* ActiveInParallel is still the map the interpreter writes to
    mu,               \* i.mu: the goroutine that holds it, "" when it is free
    timersMu,         \* i.timersMu: the goroutine that holds it, "" when it is free
    pc                \* per goroutine, the call it is in and how far it has got

\* the interpreter and the history of its last operation
ivars == <<machine, Value, Context, ActiveInParallel, started, shallowHistory,
           deepHistory, timers, currentParallel, armed, fired, trace, timerLog,
           last, exitedSince, leftFrom, preStop, orphaned, lifecycle>>

vars == <<machine, Value, Context, ActiveInParallel, started, shallowHistory,
          deepHistory, timers, currentParallel, armed, fired, trace, timerLog,
          last, exitedSince, leftFrom, preStop, orphaned, lifecycle,
          walk, snapshot, mu, timersMu, pc>>

(***************************************************************************)
(* Bounds                                                                  *)
(***************************************************************************)
\* timer generations per timer key that may be alive at once
MaxGen == 2
\* callbacks that may wait for the mutex at once
MaxFired == 2

(***************************************************************************)
(* IR types                                                                *)
(***************************************************************************)
StateTypeAtomic == "atomic"
StateTypeCompound == "compound"
StateTypeFinal == "final"
StateTypeHistory == "history"
StateTypeParallel == "parallel"
HistoryTypeShallow == "shallow"
HistoryTypeDeep == "deep"

NewStateConfig(id, stateType) ==
    [ID |-> id, Type |-> stateType, Parent |-> "", Initial |-> "",
     Children |-> <<>>, Entry |-> <<>>, Exit |-> <<>>, Transitions |-> <<>>,
     HistoryType |-> HistoryTypeShallow, HistoryDefault |-> ""]

NewTransitionConfig(event, target) ==
    [Event |-> event, Target |-> target, Guard |-> "", Actions |-> <<>>, Delay |-> 0]

\* On(event).Target(target).Guard(guard).Do(actions...)
On(event, target, guard, actions) ==
    [NewTransitionConfig(event, target) EXCEPT !.Guard = guard, !.Actions = actions]

\* TransitionBuilder.Guard: b.guard = guard
Guard(b, guard) == [b EXCEPT !.Guard = guard]

\* the Guard calls of guards made one after the other on transition builder b
RECURSIVE WithGuards(_, _)
WithGuards(b, guards) ==
    IF guards = <<>> THEN b
    ELSE WithGuards(Guard(b, Head(guards)), Tail(guards))

\* After(d).Target(target).Guard(guard).Do(actions...): no event, a positive delay
After(d, target, guard, actions) ==
    [NewTransitionConfig("", target) EXCEPT !.Guard = guard, !.Actions = actions, !.Delay = d]

\* a state as buildStateRecursive leaves it
BuildState(id, stateType, parent, initial, children, entry, exit, transitions) ==
    [NewStateConfig(id, stateType) EXCEPT
        !.Parent = parent, !.Initial = initial, !.Children = children,
        !.Entry = entry, !.Exit = exit, !.Transitions = transitions]

BuildHistory(id, parent, historyType, historyDefault) ==
    [NewStateConfig(id, StateTypeHistory) EXCEPT
        !.Parent = parent, !.HistoryType = historyType, !.HistoryDefault = historyDefault]

(***************************************************************************)
(* The context and the registered actions and guards of the machines       *)
(***************************************************************************)
InitialContext == [marked |-> FALSE]

\* the registered actions: "mark" and "unmark" write the context, the others only run
ActionNames == {"mark", "unmark", "enter", "exit", "enter2", "exit2", "act", "act2"}

ApplyAction(name, ctx) ==
    CASE name = "mark" -> [ctx EXCEPT !.marked = TRUE]
      [] name = "unmark" -> [ctx EXCEPT !.marked = FALSE]
      [] OTHER -> ctx

\* the registered guards
GuardNames == {"isMarked", "notMarked"}

ApplyGuard(name, ctx) ==
    CASE name = "isMarked" -> ctx.marked
      [] name = "notMarked" -> ~ctx.marked
      [] OTHER -> FALSE

(***************************************************************************)
(* Machine "hier": compound states, shallow and deep history, a timer      *)
(* owned by a compound state                                               *)
(***************************************************************************)
HierStates ==
    [active |-> BuildState("active", StateTypeCompound, "", "idle",
                    <<"idle", "working", "hist", "dhist">>,
                    <<"enter">>, <<"exit", "exit2">>,
                    <<On("PAUSE", "paused", "", <<"act", "act2">>),
                      On("GO", "paused", "", <<"act">>)>>),
     idle |-> BuildState("idle", StateTypeAtomic, "active", "", <<>>,
                    <<"enter">>, <<"exit">>,
                    <<On("NEXT", "working", "", <<"mark">>),
                      On("GO", "working", "isMarked", <<"unmark">>),
                      On("UP", "active", "", <<"act">>)>>),
     working |-> BuildState("working", StateTypeCompound, "active", "loading",
                    <<"loading", "running">>,
                    <<"enter", "enter2">>, <<"exit">>,
                    <<On("RESET", "working", "", <<"act">>),
                      After(1, "paused", "", <<"act">>)>>),
     loading |-> BuildState("loading", StateTypeAtomic, "working", "", <<>>,
                    <<"enter">>, <<"exit">>,
                    <<On("NEXT", "running", "", <<>>),
                      On("GO", "running", "notMarked", <<"act">>),
                      On("GO", "idle", "", <<"act2">>),
                      On("UP", "active", "", <<"act">>)>>),
     running |-> BuildState("running", StateTypeAtomic, "working", "", <<>>,
                    <<"enter">>, <<"exit">>,
                    <<On("NEXT", "loading", "", <<"unmark">>),
                      On("RESET", "running", "", <<"act">>),
                      On("UP", "finished", "", <<>>)>>),
     hist |-> BuildHistory("hist", "active", HistoryTypeShallow, "idle"),
     dhist |-> BuildHistory("dhist", "active", HistoryTypeDeep, "idle"),
     paused |-> BuildState("paused", StateTypeAtomic, "", "", <<>>,
                    <<"enter">>, <<"exit">>,
                    <<On("RESUME", "hist", "", <<"act">>),
                      On("DEEP", "dhist", "", <<"act">>),
                      On("NEXT", "running", "", <<>>)>>),
     finished |-> BuildState("finished", StateTypeFinal, "", "", <<>>,
                    <<"enter">>, <<>>, <<>>)]

(***************************************************************************)
(* Machine "par": a parallel state with two regions inside a compound      *)
(* state; region r2 holds a compound state with history states             *)
(***************************************************************************)
ParStates ==
    [lobby |-> BuildState("lobby", StateTypeAtomic, "", "", <<>>,
                    <<"enter">>, <<"exit">>,
                    <<On("ENTER", "act", "", <<"act">>)>>),
     wrap |-> BuildState("wrap", StateTypeCompound, "", "act", <<"act", "side">>,
                    <<"enter">>, <<"exit">>,
                    <<On("ESC", "lobby", "", <<"act">>)>>),
     side |-> BuildState("side", StateTypeAtomic, "wrap", "", <<>>,
                    <<"enter">>, <<"exit">>,
                    <<On("ENTER", "act", "", <<>>)>>),
     act |-> BuildState("act", StateTypeParallel, "wrap", "", <<"r1", "r2">>,
                    <<"enter", "enter2">>, <<"exit">>,
                    <<On("CANCEL", "cancelled", "", <<"act">>),
                      On("ESC", "side", "isMarked", <<"act", "unmark">>)>>),
     r1 |-> BuildState("r1", StateTypeCompound, "act", "r1_idle",
                    <<"r1_idle", "r1_working">>,
                    <<"enter">>, <<"exit">>,
                    <<On("BACK", "r1_idle", "", <<"unmark">>)>>),
     r1_idle |-> BuildState("r1_idle", StateTypeAtomic, "r1", "", <<>>,
                    <<"enter">>, <<"exit">>,
                    <<On("GO", "r1_working", "", <<"mark">>)>>),
     r1_working |-> BuildState("r1_working", StateTypeAtomic, "r1", "", <<>>,
                    <<"enter">>, <<"exit">>, <<>>),
     r2 |-> BuildState("r2", StateTypeCompound, "act", "r2_idle",
                    <<"r2_idle", "box">>,
                    <<"enter">>, <<"exit">>, <<>>),
     r2_idle |-> BuildState("r2_idle", StateTypeAtomic, "r2", "", <<>>,
                    <<"enter">>, <<"exit">>,
                    <<On("GO", "box", "isMarked", <<"act">>),
                      On("RESUME", "bhist", "", <<"act">>),
                      On("DEEP", "bdhist", "", <<"act">>)>>),
     box |-> BuildState("box", StateTypeCompound, "r2", "b1", <<"b1", "b2", "bhist", "bdhist">>,
                    <<"enter">>, <<"exit">>,
                    <<On("BACK", "r2_idle", "", <<>>)>>),
     b1 |-> BuildState("b1", StateTypeAtomic, "box", "", <<>>,
                    <<"enter">>, <<"exit">>,
                    <<On("GO", "b2", "", <<>>)>>),
     b2 |-> BuildState("b2", StateTypeAtomic, "box", "", <<>>,
                    <<"enter">>, <<"exit">>, <<>>),
     bhist |-> BuildHistory("bhist", "box", HistoryTypeShallow, "b1"),
     bdhist |-> BuildHistory("bdhist", "box", HistoryTypeDeep, "b1"),
     cancelled |-> BuildState("cancelled", StateTypeFinal, "", "", <<>>,
                    <<"enter">>, <<>>, <<>>)]

(***************************************************************************)
(* Machine "timed": a parallel state whose own delayed transition and      *)
(* whose region state's delayed transition run on timers                   *)
(***************************************************************************)
TimedStates ==
    [tp |-> BuildState("tp", StateTypeParallel, "", "", <<"ta", "tb">>,
                    <<"enter">>, <<"exit">>,
                    <<On("CANCEL", "out", "", <<"act">>),
                      After(2, "out", "", <<"act">>)>>),
     ta |-> BuildState("ta", StateTypeCompound, "tp", "ta_idle",
                    <<"ta_idle", "ta_busy">>,
                    <<"enter">>, <<"exit">>, <<>>),
     ta_idle |-> BuildState("ta_idle", StateTypeAtomic, "ta", "", <<>>,
                    <<"enter">>, <<"exit">>,
                    <<After(1, "ta_busy", "", <<"act">>)>>),
     ta_busy |-> BuildState("ta_busy", StateTypeAtomic, "ta", "", <<>>,
                    <<"enter">>, <<"exit">>,
                    <<On("BACK", "ta_idle", "", <<>>)>>),
     tb |-> BuildState("tb", StateTypeAtomic, "tp", "", <<>>,
                    <<"enter">>, <<"exit">>, <<>>),
     out |-> BuildState("out", StateTypeAtomic, "", "", <<>>,
                    <<"enter">>, <<"exit">>,
                    <<On("ENTER", "tp", "", <<>>)>>)]

(***************************************************************************)
(* Machine "delayed": delayed transitions on the initial leaf and on its   *)
(* compound parent (TestDelayedTransition_InHierarchy), and a transition   *)
(* whose builder received two Guard calls                                  *)
(***************************************************************************)
\* On("BACK").Target("done").Guard("isMarked").Guard("notMarked").Do("act")
\* on state parent: the Guard calls made on that builder
BackGuards == <<"isMarked", "notMarked">>

DelayedStates ==
    [parent |-> BuildState("parent", StateTypeCompound, "", "child", <<"child">>,
                    <<"enter", "enter2">>, <<"exit">>,
                    <<After(2, "done", "", <<"act2">>),
                      WithGuards(On("BACK", "done", "", <<"act">>), BackGuards)>>),
     child |-> BuildState("child", StateTypeAtomic, "parent", "", <<>>,
                    <<"enter">>, <<"exit">>,
                    <<After(1, "done", "", <<"act">>)>>),
     done |-> BuildState("done", StateTypeAtomic, "", "", <<>>,
                    <<"enter">>, <<"exit">>,
                    <<On("BACK", "parent", "", <<>>)>>)]

(***************************************************************************)
(* Machine "cross": a parallel state whose region ca has a transition      *)
(* into the other region and a transition to a state outside the parallel  *)
(* state (Validate only requires a transition target to exist)             *)
(***************************************************************************)
CrossStates ==
    [cp |-> BuildState("cp", StateTypeParallel, "", "", <<"ca", "cb">>,
                    <<"enter">>, <<"exit">>,
                    <<On("CANCEL", "cout", "", <<"act">>)>>),
     ca |-> BuildState("ca", StateTypeCompound, "cp", "ca1", <<"ca1", "ca2">>,
                    <<"enter">>, <<"exit">>, <<>>),
     ca1 |-> BuildState("ca1", StateTypeAtomic, "ca", "", <<>>,
                    <<"enter">>, <<"exit">>,
                    <<On("JUMP", "cb2", "", <<"act">>),
                      On("LEAVE", "cout", "", <<"act">>),
                      On("GO", "ca2", "", <<"mark">>)>>),
     ca2 |-> BuildState("ca2", StateTypeAtomic, "ca", "", <<>>,
                    <<"enter">>, <<"exit">>, <<>>),
     cb |-> BuildState("cb", StateTypeCompound, "cp", "cb1", <<"cb1", "cb2">>,
                    <<"enter">>, <<"exit">>, <<>>),
     cb1 |-> BuildState("cb1", StateTypeAtomic, "cb", "", <<>>,
                    <<"enter">>, <<"exit">>,
                    <<On("GO", "cb2", "isMarked", <<"act">>)>>),
     cb2 |-> BuildState("cb2", StateTypeAtomic, "cb", "", <<>>,
                    <<"enter">>, <<"exit">>, <<>>),
     cout |-> BuildState("cout", StateTypeAtomic, "", "", <<>>,
                    <<"enter">>, <<"exit">>,
                    <<On("ENTER", "cp", "", <<>>)>>)]

(***************************************************************************)
(* Machine "rtimer": a parallel state whose region xa owns a delayed       *)
(* transition and whose state xa1 has a transition into the other region   *)
(***************************************************************************)
RegionTimerStates ==
    [xp |-> BuildState("xp", StateTypeParallel, "", "", <<"xa", "xb">>,
                    <<"enter">>, <<"exit">>,
                    <<On("CANCEL", "xout", "", <<"act">>)>>),
     xa |-> BuildState("xa", StateTypeCompound, "xp", "xa1", <<"xa1">>,
                    <<"enter">>, <<"exit">>,
                    <<After(1, "xout", "", <<"act">>)>>),
     xa1 |-> BuildState("xa1", StateTypeAtomic, "xa", "", <<>>,
                    <<"enter">>, <<"exit">>,
                    <<On("JUMP", "xb", "", <<"act">>)>>),
     xb |-> BuildState("xb", StateTypeAtomic, "xp", "", <<>>,
                    <<"enter">>, <<"exit">>, <<>>),
     xout |-> BuildState("xout", StateTypeAtomic, "", "", <<>>,
                    <<"enter">>, <<"exit">>, <<>>)]

(***************************************************************************)
(* Machine "hinit": a compound state whose initial child is its history    *)
(* state (Validate only requires the initial to be one of the children,    *)
(* and HistoryBuilder.End appends the history state to the children)       *)
(***************************************************************************)
HistInitStates ==
    [cont |-> BuildState("cont", StateTypeCompound, "", "chist", <<"c1", "c2", "chist">>,
                    <<"enter">>, <<"exit">>,
                    <<On("GO", "c1", "", <<"act">>)>>),
     c1 |-> BuildState("c1", StateTypeAtomic, "cont", "", <<>>,
                    <<"enter">>, <<"exit">>,
                    <<On("NEXT", "c2", "", <<"mark">>)>>),
     c2 |-> BuildState("c2", StateTypeAtomic, "cont", "", <<>>,
                    <<"enter">>, <<"exit">>,
                    <<On("RESET", "cont", "", <<>>)>>),
     chist |-> BuildHistory("chist", "cont", HistoryTypeShallow, "c1")]

(***************************************************************************)
(* Machine "guarded": a delayed transition with a guard                    *)
(* (TestDelayedTransition_WithGuard)                                       *)
(***************************************************************************)
GuardedStates ==
    [waiting |-> BuildState("waiting", StateTypeAtomic, "", "", <<>>,
                    <<"enter">>, <<"exit">>,
                    <<After(1, "proceeded", "isMarked", <<"act">>)>>),
     proceeded |-> BuildState("proceeded", StateTypeAtomic, "", "", <<>>,
                    <<"enter">>, <<"exit">>, <<>>)]

NewMachineConfig(id, initial, ctx, states) ==
    [ID |-> id, Initial |-> initial, Context |-> ctx, States |-> states,
     Actions |-> ActionNames, Guards |-> GuardNames]

(***************************************************************************)
(* Machine "loose", assembled with NewMachineConfig and never validated: a  *)
(* transition and a delayed transition name the guard "missing", which is   *)
(* not registered, and a transition targets "nowhere", which is no state    *)
(***************************************************************************)
LooseStates ==
    [la |-> BuildState("la", StateTypeAtomic, "", "", <<>>,
                    <<"enter">>, <<"exit">>,
                    <<On("GO", "lb", "missing", <<"act">>),
                      After(1, "lb", "missing", <<"act">>),
                      On("NEXT", "nowhere", "", <<"act">>)>>),
     lb |-> BuildState("lb", StateTypeAtomic, "", "", <<>>,
                    <<"enter">>, <<"exit">>,
                    <<On("BACK", "la", "", <<>>)>>)]

MachineTable ==
    [hier |-> NewMachineConfig("hier", "active", InitialContext, HierStates),
     par |-> NewMachineConfig("par", "wrap", InitialContext, ParStates),
     timed |-> NewMachineConfig("timed", "tp", InitialContext, TimedStates),
     delayed |-> NewMachineConfig("delayed", "parent", InitialContext, DelayedStates),
     cross |-> NewMachineConfig("cross", "cp", InitialContext, CrossStates),
     hinit |-> NewMachineConfig("hinit", "cont", InitialContext, HistInitStates),
     guarded |-> NewMachineConfig("guarded", "waiting", InitialContext, GuardedStates),
     rtimer |-> NewMachineConfig("rtimer", "xp", InitialContext, RegionTimerStates)]

MachineNames == DOMAIN MachineTable

\* the event types sent to each machine
EventTypes ==
    [hier |-> {"NEXT", "GO", "UP", "RESET", "PAUSE", "RESUME", "DEEP"},
     par |-> {"ENTER", "ESC", "CANCEL", "GO", "BACK", "RESUME", "DEEP"},
     timed |-> {"ENTER", "CANCEL", "BACK"},
     delayed |-> {"BACK", ""},
     cross |-> {"ENTER", "CANCEL", "GO", "JUMP", "LEAVE"},
     hinit |-> {"GO", "NEXT", "RESET"},
     guarded |-> {"GO"},
     rtimer |-> {"JUMP", "CANCEL"},
     loose |-> {"GO", "NEXT", "BACK"}]

(***************************************************************************)
(* IR queries (internal/ir machine.go)                                     *)
(***************************************************************************)
M == machine

\* m.States[id] exists (GetState does not return nil)
HasState(id) == id \in DOMAIN M.States

GetState(id) == M.States[id]

IsCompound(s) == s.Type = StateTypeCompound /\ Len(s.Children) > 0
IsAtomic(s) == s.Type = StateTypeAtomic
IsFinal(s) == s.Type = StateTypeFinal
IsHistory(s) == s.Type = StateTypeHistory
IsParallel(s) == s.Type = StateTypeParallel
IsDelayed(t) == t.Delay > 0

RECURSIVE GetAncestors(_)
GetAncestors(stateID) ==
    IF HasState(stateID) /\ GetState(stateID).Parent # ""
    THEN <<GetState(stateID).Parent>> \o GetAncestors(GetState(stateID).Parent)
    ELSE <<>>

Reverse(seq) == [k \in 1..Len(seq) |-> seq[Len(seq) + 1 - k]]

GetPath(stateID) == Append(Reverse(GetAncestors(stateID)), stateID)

RECURSIVE GetInitialLeaf(_)
GetInitialLeaf(stateID) ==
    IF ~HasState(stateID) THEN stateID
    ELSE IF IsCompound(GetState(stateID)) /\ GetState(stateID).Initial # ""
         THEN GetInitialLeaf(GetState(stateID).Initial)
         ELSE stateID

IsDescendantOf(stateID, ancestorID) ==
    \E k \in 1..Len(GetAncestors(stateID)) : GetAncestors(stateID)[k] = ancestorID

RECURSIVE LCALoop(_, _, _, _)
LCALoop(pathA, pathB, k, lca) ==
    IF k <= Len(pathA) /\ k <= Len(pathB) /\ pathA[k] = pathB[k]
    THEN LCALoop(pathA, pathB, k + 1, pathA[k])
    ELSE lca

FindLCA(stateA, stateB) == LCALoop(GetPath(stateA), GetPath(stateB), 1, "")

(***************************************************************************)
(* Go maps: a missing key reads as the zero value ""                       *)
(***************************************************************************)
EmptyMap == <<>>
MapGet(map, k) == IF k \in DOMAIN map THEN map[k] ELSE ""
MapPut(map, k, v) == [x \in (DOMAIN map) \cup {k} |-> IF x = k THEN v ELSE map[x]]
MapDelete(map, k) == [x \in (DOMAIN map) \ {k} |-> map[x]]

(***************************************************************************)
(* The interpreter as a record, so that the steps of one operation compose *)
(***************************************************************************)
Cur ==
    [Value |-> Value, Context |-> Context, ActiveInParallel |-> ActiveInParallel,
     started |-> started, shallowHistory |-> shallowHistory,
     deepHistory |-> deepHistory, timers |-> timers,
     currentParallel |-> currentParallel, armed |-> armed, fired |-> fired,
     trace |-> <<>>, timerLog |-> <<>>, overflow |-> FALSE]

\* what an operation started from, kept for the properties
Snapshot ==
    [Value |-> Value, Context |-> Context, ActiveInParallel |-> ActiveInParallel,
     started |-> started, shallowHistory |-> shallowHistory,
     deepHistory |-> deepHistory, timers |-> timers,
     currentParallel |-> currentParallel, exitedSince |-> exitedSince]

NoSource == [state |-> "", idx |-> 0]

\* the state has a delayed transition
OwnsTimer(stateID) ==
    \E idx \in 1..Len(GetState(stateID).Transitions) :
        IsDelayed(GetState(stateID).Transitions[idx])

\* the compound state has a history state among its children
HasHistoryChild(P) ==
    \E k \in 1..Len(GetState(P).Children) : IsHistory(GetState(GetState(P).Children[k]))

\* the timer-owning states the trace exits, minus those it enters afterwards
RECURSIVE ExitedAfter(_, _)
ExitedAfter(tr, set) ==
    IF tr = <<>> THEN set
    ELSE ExitedAfter(Tail(tr),
                     IF Head(tr).ph = "exit" /\ OwnsTimer(Head(tr).st)
                     THEN set \cup {Head(tr).st}
                     ELSE IF Head(tr).ph = "entry" THEN set \ {Head(tr).st}
                     ELSE set)

\* the leaf of the current configuration that lies under state P, "" if none
ActiveLeafUnder(P) ==
    IF IsDescendantOf(Value, P) THEN Value
    ELSE IF \E r \in DOMAIN ActiveInParallel : IsDescendantOf(ActiveInParallel[r], P)
         THEN ActiveInParallel[CHOOSE r \in DOMAIN ActiveInParallel :
                                  IsDescendantOf(ActiveInParallel[r], P)]
         ELSE ""

\* leftFrom after an operation with trace tr
LeftAfter(tr) ==
    LET left == {P \in DOMAIN M.States :
                    /\ IsCompound(GetState(P))
                    /\ HasHistoryChild(P)
                    /\ ActiveLeafUnder(P) # ""
                    /\ \E k \in 1..Len(tr) : tr[k].ph = "exit" /\ tr[k].st = P}
    IN  [P \in (DOMAIN leftFrom) \cup left |->
            IF P \in left THEN ActiveLeafUnder(P) ELSE leftFrom[P]]

\* preStop after operation op that ends in I: Stop marks every timer whose
\* callback has not run; a marked timer stays marked until its callback
\* runs or timer.Stop stops it before it fires
PreStopAfter(I, op) ==
    IF op = "Stop" THEN I.armed \cup I.fired
    ELSE {t \in preStop :
             \/ t \in fired /\ t \in I.fired
             \/ /\ t \in armed
                /\ t \in I.armed \cup I.fired
                /\ \A k \in 1..Len(I.timerLog) :
                      ~(I.timerLog[k].call = "Stop" /\ I.timerLog[k].timer = t)}

\* orphaned after an operation that ends in I: a timer that is still alive
\* is orphaned if its state has an exit record after the timer was created,
\* or is not active when the operation ends, or if it was orphaned before
OrphanedAfter(I) ==
    {t \in I.armed \cup I.fired :
        LET created == {i \in 1..Len(I.timerLog) :
                           I.timerLog[i].call = "AfterFunc" /\ I.timerLog[i].timer = t}
            from == IF created = {} THEN 0
                    ELSE I.timerLog[CHOOSE i \in created : \A j \in created : j <= i].at
        IN  \/ created = {} /\ t \in orphaned
            \/ \E k \in (from + 1)..Len(I.trace) :
                  I.trace[k].ph = "exit" /\ I.trace[k].st = t.key[1]
            \/ ~(\/ I.Value = t.key[1]
                 \/ IsDescendantOf(I.Value, t.key[1])
                 \/ \E r \in DOMAIN I.ActiveInParallel :
                       \/ I.ActiveInParallel[r] = t.key[1]
                       \/ IsDescendantOf(I.ActiveInParallel[r], t.key[1]))}

\* lifecycle after operation op
LifecycleAfter(op) ==
    IF op = "Start" /\ lifecycle = "Unstarted" THEN "Running"
    ELSE IF op = "Stop" /\ lifecycle = "Running" THEN "Stopped"
    ELSE lifecycle

\* the interpreter after an operation that made it I
Effect(I, op, eventType, source, order) ==
    /\ ~I.overflow
    /\ Value' = I.Value
    /\ Context' = I.Context
    /\ ActiveInParallel' = I.ActiveInParallel
    /\ started' = I.started
    /\ shallowHistory' = I.shallowHistory
    /\ deepHistory' = I.deepHistory
    /\ timers' = I.timers
    /\ currentParallel' = I.currentParallel
    /\ armed' = I.armed
    /\ fired' = I.fired
    /\ trace' = I.trace
    /\ timerLog' = I.timerLog
    /\ last' = [op |-> op, event |-> eventType, source |-> source, order |-> order,
                stale |-> \E t \in preStop \cap fired : t \notin I.fired,
                orphan |-> \E t \in orphaned \cap fired : t \notin I.fired,
                ran |-> fired \ I.fired,
                pre |-> Snapshot]
    /\ exitedSince' = ExitedAfter(I.trace, exitedSince)
    /\ leftFrom' = LeftAfter(I.trace)
    /\ preStop' = PreStopAfter(I, op)
    /\ orphaned' = OrphanedAfter(I)
    /\ lifecycle' = LifecycleAfter(op)
    /\ UNCHANGED machine

\* no IR query in progress
NoWalk == [caller |-> "", loop |-> "", at |-> "", seen |-> <<>>, done |-> TRUE]

\* State() has not been called: `returned` is the State value as it was
\* returned, `visible` what reading it gives now, `shared` whether its
\* ActiveInParallel is still the map i.state.ActiveInParallel refers to
NoSnapshot ==
    [taken |-> FALSE,
     returned |-> [Value |-> "", Context |-> [marked |-> FALSE], ActiveInParallel |-> <<>>],
     visible |-> [Value |-> "", Context |-> [marked |-> FALSE], ActiveInParallel |-> <<>>],
     shared |-> FALSE]

\* the returned State value after an operation that made the interpreter I:
\* Value and Context were copied; the map is shared until exitParallelState
\* gives the interpreter a new one, which Send does when the parallel state
\* itself has a matching transition
SnapshotAfter(I, op, source) ==
    IF ~snapshot.taken \/ ~snapshot.shared THEN snapshot
    ELSE IF op = "Send" /\ started /\ currentParallel # ""
            /\ currentParallel \in DOMAIN machine.States /\ source.idx # 0
         THEN [snapshot EXCEPT !.shared = FALSE]
         ELSE [snapshot EXCEPT !.visible.ActiveInParallel = I.ActiveInParallel]

\* the goroutines that call the interpreter, and the one a timer runs its
\* callback on
Callers == {"g1", "g2"}
Goroutines == Callers \cup {"timer"}
Idle == [at |-> "idle", op |-> "", arg |-> "", seen |-> <<>>]

\* an operation of the interpreter as one step: i.mu is held from its first
\* statement to its return
Commit(I, op, eventType, source, order) ==
    /\ Effect(I, op, eventType, source, order)
    /\ snapshot' = SnapshotAfter(I, op, source)
    /\ UNCHANGED <<walk, mu, timersMu, pc>>

(***************************************************************************)
(* executeActions                                                          *)
(***************************************************************************)
RECURSIVE RunActions(_, _)
RunActions(actions, ctx) ==
    IF actions = <<>> THEN ctx
    ELSE RunActions(Tail(actions),
                    IF Head(actions) \in M.Actions THEN ApplyAction(Head(actions), ctx)
                    ELSE ctx)

\* the actions of the list that are registered, in order
RECURSIVE Registered(_)
Registered(actions) ==
    IF actions = <<>> THEN <<>>
    ELSE (IF Head(actions) \in M.Actions THEN <<Head(actions)>> ELSE <<>>)
         \o Registered(Tail(actions))

\* ph, st and idx say for the trace on whose behalf the actions run: the exit
\* or entry of state st, or transition idx of state st
executeActions(I, actions, ph, st, idx) ==
    [I EXCEPT !.Context = RunActions(actions, I.Context),
              !.trace = Append(I.trace, [ph |-> ph, st |-> st, idx |-> idx,
                                         acts |-> Registered(actions),
                                         ctx |-> I.Context])]

(***************************************************************************)
(* Timers                                                                  *)
(***************************************************************************)
\* fmt.Sprintf("%s:%d", stateID, idx)
TimerKey(stateID, idx) == <<stateID, idx>>

Timer(key, gen) == [key |-> key, gen |-> gen]

LiveTimers(I) == I.armed \cup I.fired \cup {I.timers[k] : k \in DOMAIN I.timers}

FreeGens(I, key) == {g \in 1..MaxGen : Timer(key, g) \notin LiveTimers(I)}

\* time.AfterFunc for transition idx of stateID, then i.timers[timerKey] = timer
ScheduleOne(I, stateID, idx) ==
    LET key == TimerKey(stateID, idx)
        free == FreeGens(I, key)
    IN  IF free = {} THEN [I EXCEPT !.overflow = TRUE]
        ELSE LET t == Timer(key, CHOOSE g \in free : \A h \in free : g <= h)
             IN  [I EXCEPT !.armed = @ \cup {t}, !.timers = MapPut(@, key, t),
                           !.timerLog = Append(@, [call |-> "AfterFunc", timer |-> t,
                                                   at |-> Len(I.trace)])]

RECURSIVE ScheduleLoop(_, _, _)
ScheduleLoop(I, stateID, idx) ==
    IF idx > Len(GetState(stateID).Transitions) THEN I
    ELSE ScheduleLoop(IF IsDelayed(GetState(stateID).Transitions[idx])
                      THEN ScheduleOne(I, stateID, idx) ELSE I,
                      stateID, idx + 1)

scheduleDelayedTransitions(I, stateID) ==
    IF ~HasState(stateID) THEN I ELSE ScheduleLoop(I, stateID, 1)

RECURSIVE CancelLoop(_, _, _)
CancelLoop(I, stateID, idx) ==
    IF idx > Len(GetState(stateID).Transitions) THEN I
    ELSE LET key == TimerKey(stateID, idx)
         IN  CancelLoop(IF key \in DOMAIN I.timers
                        THEN [I EXCEPT !.armed = @ \ {I.timers[key]},
                                       !.timers = MapDelete(@, key),
                                       !.timerLog = Append(@, [call |-> "Stop",
                                                               timer |-> I.timers[key],
                                                               at |-> Len(I.trace)])]
                        ELSE I,
                        stateID, idx + 1)

cancelDelayedTransitions(I, stateID) ==
    IF ~HasState(stateID) THEN I ELSE CancelLoop(I, stateID, 1)


(***************************************************************************)
(* Transition selection                                                    *)
(***************************************************************************)
Event(type) == [Type |-> type]

Source(stateID, idx) == [state |-> stateID, idx |-> idx]

TransitionOf(source) == GetState(source.state).Transitions[source.idx]

\* the guard check of findMatchingTransition and executeDelayedTransition
GuardAllows(t, ctx) ==
    IF t.Guard # ""
    THEN ~(t.Guard \in M.Guards /\ ~ApplyGuard(t.Guard, ctx))
    ELSE TRUE

\* index of the first transition of the state that matches, 0 if none does
RECURSIVE MatchLoop(_, _, _, _)
MatchLoop(I, stateID, event, idx) ==
    IF idx > Len(GetState(stateID).Transitions) THEN 0
    ELSE LET t == GetState(stateID).Transitions[idx]
         IN  IF t.Event # event.Type THEN MatchLoop(I, stateID, event, idx + 1)
             ELSE IF ~GuardAllows(t, I.Context) THEN MatchLoop(I, stateID, event, idx + 1)
             ELSE idx

\* mutant: a failing guard ends the scan of the state
RECURSIVE MatchLoopGuardStops(_, _, _, _)
MatchLoopGuardStops(I, stateID, event, idx) ==
    IF idx > Len(GetState(stateID).Transitions) THEN 0
    ELSE LET t == GetState(stateID).Transitions[idx]
         IN  IF t.Event # event.Type THEN MatchLoopGuardStops(I, stateID, event, idx + 1)
             ELSE IF ~GuardAllows(t, I.Context) THEN 0
             ELSE idx

findMatchingTransition_GuardStops(I, stateID, event) ==
    MatchLoopGuardStops(I, stateID, event, 1)

findMatchingTransition(I, stateID, event) == MatchLoop(I, stateID, event, 1)

RECURSIVE findMatchingTransitionHierarchical(_, _, _)
findMatchingTransitionHierarchical(I, stateID, event) ==
    IF ~HasState(stateID) THEN NoSource
    ELSE IF findMatchingTransition(I, stateID, event) # 0
         THEN Source(stateID, findMatchingTransition(I, stateID, event))
         ELSE IF GetState(stateID).Parent = "" THEN NoSource
         ELSE findMatchingTransitionHierarchical(I, GetState(stateID).Parent, event)

RECURSIVE findMatchingTransitionInRegion(_, _, _, _)
findMatchingTransitionInRegion(I, stateID, regionID, event) ==
    IF ~HasState(stateID) THEN NoSource
    ELSE IF findMatchingTransition(I, stateID, event) # 0
         THEN Source(stateID, findMatchingTransition(I, stateID, event))
         ELSE IF stateID = regionID THEN NoSource
         ELSE IF GetState(stateID).Parent = "" THEN NoSource
         ELSE findMatchingTransitionInRegion(I, GetState(stateID).Parent, regionID, event)

(***************************************************************************)
(* Target resolution                                                       *)
(***************************************************************************)
resolveHistoryTarget(I, historyID) ==
    LET historyState == GetState(historyID)
        parentID == historyState.Parent
        recordedHistory == IF historyState.HistoryType = HistoryTypeDeep
                           THEN MapGet(I.deepHistory, parentID)
                           ELSE MapGet(I.shallowHistory, parentID)
    IN  IF parentID = "" THEN GetInitialLeaf(historyState.HistoryDefault)
        ELSE IF recordedHistory # ""
             THEN IF historyState.HistoryType = HistoryTypeDeep
                  THEN recordedHistory
                  ELSE GetInitialLeaf(recordedHistory)
             ELSE GetInitialLeaf(historyState.HistoryDefault)

resolveTarget(I, targetID) ==
    IF ~HasState(targetID) THEN targetID
    ELSE IF IsHistory(GetState(targetID)) THEN resolveHistoryTarget(I, targetID)
    ELSE IF IsParallel(GetState(targetID)) THEN targetID
    ELSE GetInitialLeaf(targetID)

(***************************************************************************)
(* Exit and entry sets                                                     *)
(***************************************************************************)
RECURSIVE getStatesToExit(_, _)
getStatesToExit(currentLeaf, lca) ==
    IF currentLeaf = "" THEN <<>>
    ELSE IF currentLeaf = lca THEN <<>>
    ELSE IF ~HasState(currentLeaf) THEN <<currentLeaf>>
    ELSE <<currentLeaf>> \o getStatesToExit(GetState(currentLeaf).Parent, lca)

RECURSIVE EnterFilter(_, _, _, _)
EnterFilter(path, lca, k, foundLCA) ==
    IF k > Len(path) THEN <<>>
    ELSE IF path[k] = lca THEN EnterFilter(path, lca, k + 1, TRUE)
    ELSE IF foundLCA THEN <<path[k]>> \o EnterFilter(path, lca, k + 1, foundLCA)
    ELSE EnterFilter(path, lca, k + 1, foundLCA)

getStatesToEnter(target, lca) == EnterFilter(GetPath(target), lca, 1, lca = "")

RECURSIVE EntryPathFilter(_, _, _, _)
EntryPathFilter(fullPath, start, k, foundStart) ==
    IF k > Len(fullPath) THEN <<>>
    ELSE IF fullPath[k] = start \/ foundStart
         THEN <<fullPath[k]>> \o EntryPathFilter(fullPath, start, k + 1, TRUE)
         ELSE EntryPathFilter(fullPath, start, k + 1, foundStart)

getEntryPath(start, leaf) ==
    IF start = leaf THEN <<start>>
    ELSE EntryPathFilter(GetPath(leaf), start, 1, FALSE)

(***************************************************************************)
(* Parallel entry                                                          *)
(***************************************************************************)
\* mutant: a state's timers are scheduled before its entry actions run
RECURSIVE EnterPath_TimersFirst(_, _)
EnterPath_TimersFirst(I, path) ==
    IF path = <<>> THEN I
    ELSE EnterPath_TimersFirst(
             IF HasState(Head(path))
             THEN executeActions(scheduleDelayedTransitions(I, Head(path)),
                                 GetState(Head(path)).Entry, "entry", Head(path), 0)
             ELSE I,
             Tail(path))

\* entry actions and timers of the states of path, in order
RECURSIVE EnterPath(_, _)
EnterPath(I, path) ==
    IF path = <<>> THEN I
    ELSE EnterPath(IF HasState(Head(path))
                   THEN scheduleDelayedTransitions(
                            executeActions(I, GetState(Head(path)).Entry, "entry",
                                           Head(path), 0),
                            Head(path))
                   ELSE I,
                   Tail(path))

enterRegion(I, regionID) ==
    IF ~HasState(regionID) THEN I
    ELSE LET leafID == IF IsCompound(GetState(regionID))
                       THEN GetInitialLeaf(regionID) ELSE regionID
             I1 == EnterPath(I, getEntryPath(regionID, leafID))
         IN  [I1 EXCEPT !.ActiveInParallel = MapPut(@, regionID, leafID)]

\* mutant: the regions are entered last child first
RECURSIVE EnterRegions_LastFirst(_, _)
EnterRegions_LastFirst(I, regions) ==
    IF regions = <<>> THEN I
    ELSE enterRegion(EnterRegions_LastFirst(I, Tail(regions)), Head(regions))

RECURSIVE EnterRegions(_, _)
EnterRegions(I, regions) ==
    IF regions = <<>> THEN I
    ELSE EnterRegions(enterRegion(I, Head(regions)), Tail(regions))

enterParallelState(I, parallelID) ==
    IF ~HasState(parallelID) THEN I
    ELSE IF ~IsParallel(GetState(parallelID)) THEN I
    ELSE LET I1 == [I EXCEPT !.currentParallel = parallelID, !.Value = parallelID]
             I2 == executeActions(I1, GetState(parallelID).Entry, "entry", parallelID, 0)
             I3 == scheduleDelayedTransitions(I2, parallelID)
         IN  EnterRegions(I3, GetState(parallelID).Children)


(***************************************************************************)
(* executeTransitionHierarchical                                           *)
(***************************************************************************)
\* history of the compound parent of an exited state
RecordHistory(I, stateID, currentLeaf) ==
    LET parentID == GetState(stateID).Parent
    IN  IF parentID # "" /\ HasState(parentID) /\ IsCompound(GetState(parentID))
        THEN [I EXCEPT !.shallowHistory = MapPut(@, parentID, stateID),
                       !.deepHistory = MapPut(@, parentID, currentLeaf)]
        ELSE I

\* step 1: cancel timers, run exit actions, record history, leaf to root
RECURSIVE ExitStates(_, _, _)
ExitStates(I, statesToExit, currentLeaf) ==
    IF statesToExit = <<>> THEN I
    ELSE LET stateID == Head(statesToExit)
         IN  ExitStates(
                 IF HasState(stateID)
                 THEN RecordHistory(
                          executeActions(cancelDelayedTransitions(I, stateID),
                                         GetState(stateID).Exit, "exit", stateID, 0),
                          stateID, currentLeaf)
                 ELSE I,
                 Tail(statesToExit), currentLeaf)

\* steps 4 and 5: entry actions root to leaf, then the new leaf; a parallel
\* state on the way takes over and ends the entry
RECURSIVE EnterStates(_, _, _)
EnterStates(I, statesToEnter, resolvedTarget) ==
    IF statesToEnter = <<>> THEN [I EXCEPT !.Value = resolvedTarget]
    ELSE LET stateID == Head(statesToEnter)
         IN  IF ~HasState(stateID) THEN EnterStates(I, Tail(statesToEnter), resolvedTarget)
             ELSE IF IsParallel(GetState(stateID)) THEN enterParallelState(I, stateID)
             ELSE EnterStates(
                      scheduleDelayedTransitions(
                          executeActions(I, GetState(stateID).Entry, "entry", stateID, 0),
                          stateID),
                      Tail(statesToEnter), resolvedTarget)

\* mutant: a self-transition is treated like any other, the LCA is the boundary
ExitBoundary_NoSelfCase(sourceStateID, targetStateID, resolvedTarget) ==
    FindLCA(sourceStateID, resolvedTarget)

\* the state below which the transition exits and enters: the LCA of source
\* and resolved target, or the parent of the source for a self-transition
ExitBoundary(sourceStateID, targetStateID, resolvedTarget) ==
    LET lca == FindLCA(sourceStateID, resolvedTarget)
        isSelfTransition == sourceStateID = targetStateID
    IN  IF isSelfTransition THEN GetState(sourceStateID).Parent ELSE lca

\* mutant: the transition's actions run before the exit actions
executeTransitionHierarchical_ActionsFirst(I, source) ==
    LET transition == TransitionOf(source)
        sourceStateID == source.state
        targetStateID == transition.Target
        resolvedTarget == resolveTarget(I, targetStateID)
        currentLeaf == I.Value
        boundary == ExitBoundary(sourceStateID, targetStateID, resolvedTarget)
        statesToExit == getStatesToExit(currentLeaf, boundary)
        statesToEnter == getStatesToEnter(resolvedTarget, boundary)
        I1 == executeActions(I, transition.Actions, "trans", source.state, source.idx)
        I2 == ExitStates(I1, statesToExit, currentLeaf)
    IN  IF HasState(resolvedTarget) /\ IsParallel(GetState(resolvedTarget))
        THEN enterParallelState(I2, resolvedTarget)
        ELSE EnterStates(I2, statesToEnter, resolvedTarget)

executeTransitionHierarchical(I, source) ==
    LET transition == TransitionOf(source)
        sourceStateID == source.state
        targetStateID == transition.Target
        resolvedTarget == resolveTarget(I, targetStateID)
        currentLeaf == I.Value
        boundary == ExitBoundary(sourceStateID, targetStateID, resolvedTarget)
        statesToExit == getStatesToExit(currentLeaf, boundary)
        statesToEnter == getStatesToEnter(resolvedTarget, boundary)
        I1 == ExitStates(I, statesToExit, currentLeaf)
        I2 == executeActions(I1, transition.Actions, "trans", source.state, source.idx)
    IN  IF HasState(resolvedTarget) /\ IsParallel(GetState(resolvedTarget))
        THEN enterParallelState(I2, resolvedTarget)
        ELSE EnterStates(I2, statesToEnter, resolvedTarget)

(***************************************************************************)
(* Initial entry                                                           *)
(***************************************************************************)
\* first parallel state of the path, "" if there is none
RECURSIVE FirstParallel(_)
FirstParallel(path) ==
    IF path = <<>> THEN ""
    ELSE IF HasState(Head(path)) /\ IsParallel(GetState(Head(path))) THEN Head(path)
    ELSE FirstParallel(Tail(path))

enterStateHierarchy(I, stateID) ==
    IF ~HasState(stateID) THEN I
    ELSE IF IsParallel(GetState(stateID)) THEN enterParallelState(I, stateID)
    ELSE LET leaf == GetInitialLeaf(stateID)
             path == getEntryPath(stateID, leaf)
             id == FirstParallel(path)
             prePath == getEntryPath(stateID, id)
         IN  IF id # ""
             THEN enterParallelState(EnterPath(I, SubSeq(prePath, 1, Len(prePath) - 1)), id)
             ELSE [EnterPath(I, path) EXCEPT !.Value = leaf]

(***************************************************************************)
(* Parallel exit and broadcast                                             *)
(***************************************************************************)
\* cancel timers and run exit actions of the states, in order
RECURSIVE ExitRegionStates(_, _)
ExitRegionStates(I, states) ==
    IF states = <<>> THEN I
    ELSE ExitRegionStates(
             IF HasState(Head(states))
             THEN executeActions(cancelDelayedTransitions(I, Head(states)),
                                 GetState(Head(states)).Exit, "exit", Head(states), 0)
             ELSE I,
             Tail(states))

exitRegion(I, regionID, leafID) ==
    LET statesToExit == getStatesToExit(leafID, "")
        InRegion(stateID) == stateID = regionID \/ IsDescendantOf(stateID, regionID)
        filtered == SelectSeq(statesToExit, InRegion)
    IN  ExitRegionStates(I, filtered)

\* the range loop over i.state.ActiveInParallel visits the regions in order
RECURSIVE ExitRegions(_, _)
ExitRegions(I, order) ==
    IF order = <<>> THEN I
    ELSE ExitRegions(exitRegion(I, Head(order), I.ActiveInParallel[Head(order)]),
                     Tail(order))

exitParallelState(I, order) ==
    IF I.currentParallel = "" THEN I
    ELSE IF ~HasState(I.currentParallel) THEN I
    ELSE LET I1 == ExitRegions(I, order)
             I2 == cancelDelayedTransitions(I1, I.currentParallel)
             I3 == executeActions(I2, GetState(I.currentParallel).Exit, "exit",
                                  I.currentParallel, 0)
         IN  [I3 EXCEPT !.currentParallel = "", !.ActiveInParallel = EmptyMap]

executeTransitionInRegion(I, regionID, source) ==
    LET transition == TransitionOf(source)
        sourceStateID == source.state
        targetStateID == transition.Target
        resolvedTarget == resolveTarget(I, targetStateID)
        currentLeaf == I.ActiveInParallel[regionID]
        lca0 == FindLCA(sourceStateID, resolvedTarget)
        lca == IF ~IsDescendantOf(lca0, regionID) /\ lca0 # regionID
               THEN regionID ELSE lca0
        isSelfTransition == sourceStateID = targetStateID
        sourceParent == GetState(sourceStateID).Parent
        statesToExit == IF isSelfTransition
                        THEN getStatesToExit(currentLeaf, sourceParent)
                        ELSE getStatesToExit(currentLeaf, lca)
        statesToEnter == IF isSelfTransition
                         THEN getStatesToEnter(resolvedTarget, sourceParent)
                         ELSE getStatesToEnter(resolvedTarget, lca)
        I1 == ExitRegionStates(I, statesToExit)
        I2 == executeActions(I1, transition.Actions, "trans", source.state, source.idx)
        I3 == EnterPath(I2, statesToEnter)
    IN  [I3 EXCEPT !.ActiveInParallel = MapPut(@, regionID, resolvedTarget)]

\* mutant: the broadcast ends with the first region that takes a transition
RECURSIVE Broadcast_StopsAfterFirst(_, _, _)
Broadcast_StopsAfterFirst(I, event, order) ==
    IF order = <<>> THEN I
    ELSE LET regionID == Head(order)
             leafID == I.ActiveInParallel[regionID]
             Iv == [I EXCEPT !.trace = Append(@, [ph |-> "visit", st |-> regionID,
                                                  idx |-> 0, acts |-> <<>>,
                                                  ctx |-> I.Context])]
             transSource == findMatchingTransitionInRegion(Iv, leafID, regionID, event)
         IN  IF HasState(leafID) /\ transSource # NoSource
             THEN executeTransitionInRegion(Iv, regionID, transSource)
             ELSE Broadcast_StopsAfterFirst(Iv, event, Tail(order))

\* the broadcast loop; each visit is noted in the trace with the context it saw
RECURSIVE Broadcast(_, _, _)
Broadcast(I, event, order) ==
    IF order = <<>> THEN I
    ELSE LET regionID == Head(order)
             leafID == I.ActiveInParallel[regionID]
             Iv == [I EXCEPT !.trace = Append(@, [ph |-> "visit", st |-> regionID,
                                                  idx |-> 0, acts |-> <<>>,
                                                  ctx |-> I.Context])]
             transSource == findMatchingTransitionInRegion(Iv, leafID, regionID, event)
         IN  Broadcast(IF HasState(leafID) /\ transSource # NoSource
                       THEN executeTransitionInRegion(Iv, regionID, transSource)
                       ELSE Iv,
                       event, Tail(order))

sendToParallelRegions(I, event, order) ==
    IF ~HasState(I.currentParallel) THEN I
    ELSE LET idx == findMatchingTransition(I, I.currentParallel, event)
         IN  IF idx # 0
             THEN executeTransitionHierarchical(exitParallelState(I, order),
                                                Source(I.currentParallel, idx))
             ELSE Broadcast(I, event, order)


(***************************************************************************)
(* Queries                                                                 *)
(***************************************************************************)
\* mutant: the active region leaves are not looked at
matchesUnlocked_LeafOnly(I, id) ==
    \/ I.Value = id
    \/ IsDescendantOf(I.Value, id)

matchesUnlocked(I, id) ==
    \/ I.Value = id
    \/ IsDescendantOf(I.Value, id)
    \/ \E regionID \in DOMAIN I.ActiveInParallel :
          \/ I.ActiveInParallel[regionID] = id
          \/ IsDescendantOf(I.ActiveInParallel[regionID], id)

Matches(id) == matchesUnlocked(Cur, id)

Done ==
    IF ~started THEN FALSE
    ELSE IF ~HasState(Value) THEN FALSE
    ELSE GetState(Value).Type = StateTypeFinal

(***************************************************************************)
(* Delayed transitions                                                     *)
(***************************************************************************)
\* mutant: the guard of the delayed transition is not looked at
executeDelayedTransition_IgnoresGuard(I, source) ==
    executeTransitionHierarchical(I, source)

executeDelayedTransition(I, source) ==
    IF ~GuardAllows(TransitionOf(source), I.Context) THEN I
    ELSE executeTransitionHierarchical(I, source)

\* the body of the time.AfterFunc callback of timer t, run under i.mu
timerCallback(I, t) ==
    LET stateID == t.key[1]
        I1 == [I EXCEPT !.fired = @ \ {t}, !.timers = MapDelete(@, t.key)]
    IN  IF I1.started /\ matchesUnlocked(I1, stateID)
        THEN executeDelayedTransition(I1, Source(stateID, t.key[2]))
        ELSE I1

(***************************************************************************)
(* Operations                                                              *)
(***************************************************************************)
\* the orders in which a range loop may visit the keys of a map
Orders(S) ==
    {seq \in [1..Cardinality(S) -> S] : \A a, b \in 1..Cardinality(S) : seq[a] = seq[b] => a = b}

\* NewInterpreter(machine)
NewInterpreter(m) ==
    /\ machine = m
    /\ Value = ""
    /\ Context = machine.Context
    /\ ActiveInParallel = EmptyMap
    /\ started = FALSE
    /\ shallowHistory = EmptyMap
    /\ deepHistory = EmptyMap
    /\ timers = EmptyMap
    /\ currentParallel = ""
    /\ armed = {}
    /\ fired = {}
    /\ trace = <<>>
    /\ timerLog = <<>>
    /\ last = [op |-> "NewInterpreter", event |-> "", source |-> NoSource, order |-> <<>>,
               stale |-> FALSE, orphan |-> FALSE, ran |-> {},
               pre |-> [Value |-> "", Context |-> machine.Context,
                        ActiveInParallel |-> EmptyMap, started |-> FALSE,
                        shallowHistory |-> EmptyMap, deepHistory |-> EmptyMap,
                        timers |-> EmptyMap, currentParallel |-> "",
                        exitedSince |-> {}]]
    /\ exitedSince = {}
    /\ leftFrom = EmptyMap
    /\ preStop = {}
    /\ orphaned = {}
    /\ lifecycle = "Unstarted"
    /\ walk = NoWalk
    /\ snapshot = NoSnapshot
    /\ mu = ""
    /\ timersMu = ""
    /\ pc = [g \in Goroutines |-> Idle]

\* an interpreter for one of the machines of MachineTable
Init == \E name \in MachineNames : NewInterpreter(MachineTable[name])

\* mutant: Start enters the initial state whether or not i.started is set
start_AlwaysEnters(I) ==
    enterStateHierarchy([I EXCEPT !.started = TRUE], M.Initial)

start(I) ==
    IF I.started THEN I
    ELSE enterStateHierarchy([I EXCEPT !.started = TRUE], M.Initial)

Start == Commit(start(Cur), "Start", "", NoSource, <<>>)

\* the transition Send selects outside a parallel state, NoSource if none
SelectedSource(I, event) ==
    IF ~I.started THEN NoSource
    ELSE IF I.currentParallel # ""
         THEN IF HasState(I.currentParallel)
                 /\ findMatchingTransition(I, I.currentParallel, event) # 0
              THEN Source(I.currentParallel,
                          findMatchingTransition(I, I.currentParallel, event))
              ELSE NoSource
    ELSE findMatchingTransitionHierarchical(I, I.Value, event)

\* mutant: Send does not look at i.started
send_IgnoresStarted(I, event, order) ==
    IF I.currentParallel # "" THEN sendToParallelRegions(I, event, order)
    ELSE IF ~HasState(I.Value) THEN I
    ELSE IF findMatchingTransitionHierarchical(I, I.Value, event) = NoSource THEN I
    ELSE executeTransitionHierarchical(I,
             findMatchingTransitionHierarchical(I, I.Value, event))

send(I, event, order) ==
    IF ~I.started THEN I
    ELSE IF I.currentParallel # "" THEN sendToParallelRegions(I, event, order)
    ELSE IF ~HasState(I.Value) THEN I
    ELSE IF findMatchingTransitionHierarchical(I, I.Value, event) = NoSource THEN I
    ELSE executeTransitionHierarchical(I,
             findMatchingTransitionHierarchical(I, I.Value, event))

Send(type) ==
    \E order \in (IF started /\ currentParallel # ""
                  THEN Orders(DOMAIN ActiveInParallel) ELSE {<<>>}) :
        Commit(send(Cur, Event(type), order), "Send", type,
               SelectedSource(Cur, Event(type)), order)

updateContext(I, fn) == [I EXCEPT !.Context = ApplyAction(fn, @)]

UpdateContext(fn) == Commit(updateContext(Cur, fn), "UpdateContext", fn, NoSource, <<>>)

\* mutant: Stop marks the interpreter not started and leaves the timers alone
stop_KeepsTimers(I) ==
    [I EXCEPT !.started = FALSE]

stop(I) ==
    [I EXCEPT !.armed = @ \ {I.timers[k] : k \in DOMAIN I.timers},
              !.timers = EmptyMap,
              !.started = FALSE]

Stop == Commit(stop(Cur), "Stop", "", NoSource, <<>>)

\* the delay of timer t elapses: its callback starts and waits for i.mu
TimerFire(t) ==
    /\ t \in armed
    /\ Cardinality(fired) < MaxFired
    /\ Commit([Cur EXCEPT !.armed = @ \ {t}, !.fired = @ \cup {t}],
              "TimerFire", "", Source(t.key[1], t.key[2]), <<>>)

\* the callback of timer t gets i.mu and runs
TimerCallback(t) ==
    /\ t \in fired
    /\ Commit(timerCallback(Cur, t), "TimerCallback", "", Source(t.key[1], t.key[2]), <<>>)

Next ==
    \/ Start
    \/ \E type \in EventTypes[machine.ID] : Send(type)
    \/ \E fn \in {"mark", "unmark"} : UpdateContext(fn)
    \/ Stop
    \/ \E t \in armed : TimerFire(t)
    \/ \E t \in fired : TimerCallback(t)

Spec == Init /\ [][Next]_vars

\* the interpreter handed a machine that was never validated
LooseInit == NewInterpreter(NewMachineConfig("loose", "la", InitialContext, LooseStates))

LooseSpec == LooseInit /\ [][Next]_vars

(***************************************************************************)
(* State(): the caller keeps the returned value while the interpreter goes *)
(* on                                                                      *)
(***************************************************************************)
State ==
    /\ snapshot' = [taken |-> TRUE,
                    returned |-> [Value |-> Value, Context |-> Context,
                                  ActiveInParallel |-> ActiveInParallel],
                    visible |-> [Value |-> Value, Context |-> Context,
                                 ActiveInParallel |-> ActiveInParallel],
                    shared |-> TRUE]
    /\ UNCHANGED <<ivars, walk, mu, timersMu, pc>>

SnapshotInit == NewInterpreter(MachineTable.rtimer)

SnapshotNext == State \/ Next

SnapshotSpec == SnapshotInit /\ [][SnapshotNext]_vars

(***************************************************************************)
(* The operations step by step, with the two mutexes: every public method  *)
(* and every timer callback starts with i.mu.Lock() and ends with the      *)
(* deferred i.mu.Unlock(); Stop and the callback take i.timersMu inside,   *)
(* and so do scheduleDelayedTransitions and cancelDelayedTransitions       *)
(* during a transition                                                     *)
(***************************************************************************)
\* timers that Stop cannot reach any more (fired, or running without an
\* entry in i.timers) at once
MaxPending == 1

\* the calls the two goroutines make
Calls ==
    [g1 |-> {[op |-> "Start", arg |-> ""], [op |-> "Send", arg |-> "GO"],
             [op |-> "UpdateContext", arg |-> "mark"], [op |-> "State", arg |-> ""]},
     g2 |-> {[op |-> "Stop", arg |-> ""], [op |-> "Matches", arg |-> "waiting"],
             [op |-> "Done", arg |-> ""]}]

\* State, Matches and Done read the fields and write none
Reads(op) == op \in {"State", "Matches", "Done"}

\* the fields of the interpreter the operations read and write
Fields ==
    <<Value, Context, ActiveInParallel, started, shallowHistory, deepHistory,
      timers, currentParallel>>

\* Stop and the timer callback lock i.timersMu right after i.mu
TakesTimersMuFirst(op) == op \in {"Stop", "TimerCallback"}

\* these take i.timersMu while they run: scheduleDelayedTransitions and
\* cancelDelayedTransitions lock and unlock it around each access of i.timers
UsesTimers(op) == op \in {"Start", "Send", "TimerCallback"}

LockInit == NewInterpreter(MachineTable.guarded)

\* goroutine g calls a method: it arrives at i.mu.Lock()
Call(g, c) ==
    /\ pc[g] = Idle
    /\ pc' = [pc EXCEPT ![g] = [at |-> "lock", op |-> c.op, arg |-> c.arg, seen |-> <<>>]]
    /\ UNCHANGED <<ivars, walk, snapshot, mu, timersMu>>

\* the delay of timer t elapses: its callback arrives at i.mu.Lock()
Expire(t) ==
    /\ Cardinality(fired \cup (armed \ {timers[k] : k \in DOMAIN timers}) \cup {t})
          <= MaxPending
    /\ TimerFire(t)

\* mutant: Lock returns although another goroutine holds the mutex
LockMu_NoWait(g) ==
    /\ pc[g].at = "lock"
    /\ mu' = g
    /\ pc' = [pc EXCEPT ![g].at = IF TakesTimersMuFirst(pc[g].op) THEN "timersLock"
                                   ELSE "body"]
    /\ UNCHANGED <<ivars, walk, snapshot, timersMu>>

\* i.mu.Lock() returns in goroutine g
LockMu(g) ==
    /\ pc[g].at = "lock"
    /\ mu = ""
    /\ mu' = g
    /\ pc' = [pc EXCEPT ![g].at = IF TakesTimersMuFirst(pc[g].op) THEN "timersLock"
                                   ELSE "body"]
    /\ UNCHANGED <<ivars, walk, snapshot, timersMu>>

\* i.mu.Lock() returns in the callback of timer t
CallbackLockMu(t) ==
    /\ t \in fired
    /\ pc["timer"] = Idle
    /\ mu = ""
    /\ mu' = "timer"
    /\ pc' = [pc EXCEPT !["timer"] = [at |-> "timersLock", op |-> "TimerCallback",
                                      arg |-> t, seen |-> <<>>]]
    /\ UNCHANGED <<ivars, walk, snapshot, timersMu>>

\* i.timersMu.Lock() returns in Stop or in the callback
LockTimersMu(g) ==
    /\ pc[g].at = "timersLock"
    /\ timersMu = ""
    /\ timersMu' = g
    /\ pc' = [pc EXCEPT ![g].at = "timersHeld"]
    /\ UNCHANGED <<ivars, walk, snapshot, mu>>

\* mutant: the timer table is left locked
UnlockTimersMu_Forgotten(g) ==
    /\ pc[g].at = "timersHeld"
    /\ pc' = [pc EXCEPT ![g].at = "body"]
    /\ UNCHANGED <<ivars, walk, snapshot, mu, timersMu>>

\* i.timersMu.Unlock() in Stop or in the callback
UnlockTimersMu(g) ==
    /\ pc[g].at = "timersHeld"
    /\ timersMu' = ""
    /\ pc' = [pc EXCEPT ![g].at = "body"]
    /\ UNCHANGED <<ivars, walk, snapshot, mu>>

\* the operation reads the interpreter's fields
Begin(g) ==
    /\ pc[g].at = "body"
    /\ pc' = [pc EXCEPT ![g].at = "mid", ![g].seen = Fields]
    /\ UNCHANGED <<ivars, walk, snapshot, mu, timersMu>>

\* the interpreter as operation op with argument arg leaves it
Outcome(op, arg) ==
    CASE op = "Start" -> start(Cur)
      [] op = "Send" -> send(Cur, Event(arg), <<>>)
      [] op = "UpdateContext" -> updateContext(Cur, arg)
      [] op = "Stop" -> stop(Cur)
      [] op = "TimerCallback" -> timerCallback(Cur, arg)
      [] OTHER -> Cur

\* the operation runs to its return statement and writes what it writes
Finish(g) ==
    /\ pc[g].at = "mid"
    /\ ~Reads(pc[g].op)
    /\ UsesTimers(pc[g].op) => timersMu = ""
    /\ Effect(Outcome(pc[g].op, pc[g].arg), pc[g].op,
              IF pc[g].op \in {"Send", "UpdateContext"} THEN pc[g].arg ELSE "",
              IF pc[g].op = "Send" THEN SelectedSource(Cur, Event(pc[g].arg))
              ELSE IF pc[g].op = "TimerCallback"
                   THEN Source(pc[g].arg.key[1], pc[g].arg.key[2])
                   ELSE NoSource,
              <<>>)
    /\ pc' = [pc EXCEPT ![g].at = "unlock"]
    /\ UNCHANGED <<walk, snapshot, mu, timersMu>>

\* State, Matches or Done returns what it read
Return(g) ==
    /\ pc[g].at = "mid"
    /\ Reads(pc[g].op)
    /\ pc' = [pc EXCEPT ![g].at = "unlock"]
    /\ UNCHANGED <<ivars, walk, snapshot, mu, timersMu>>

\* the deferred i.mu.Unlock()
Unlock(g) ==
    /\ pc[g].at = "unlock"
    /\ mu' = ""
    /\ pc' = [pc EXCEPT ![g] = Idle]
    /\ UNCHANGED <<ivars, walk, snapshot, timersMu>>

LockNext ==
    \/ \E g \in Callers : \E c \in Calls[g] : Call(g, c)
    \/ \E t \in armed : Expire(t)
    \/ \E g \in Callers : LockMu(g)
    \/ \E t \in fired : CallbackLockMu(t)
    \/ \E g \in Goroutines : LockTimersMu(g)
    \/ \E g \in Goroutines : UnlockTimersMu(g)
    \/ \E g \in Goroutines : Begin(g)
    \/ \E g \in Goroutines : Finish(g)
    \/ \E g \in Callers : Return(g)
    \/ \E g \in Goroutines : Unlock(g)

LockSpec == LockInit /\ [][LockNext]_vars

\* the timers of machine guarded
LockTimers == {Timer(TimerKey("waiting", 1), gen) : gen \in 1..MaxGen}

\* i.mu.Lock() returns in the calling goroutine g
Acquires(g) ==
    /\ pc[g].at = "lock" /\ mu = ""
    /\ mu' = g

\* i.mu.Lock() returns in the goroutine of the callback of timer t
CallbackAcquires(t) ==
    /\ t \in fired /\ pc["timer"] = Idle /\ mu = ""
    /\ mu' = "timer"
    /\ pc' = [pc EXCEPT !["timer"] = [at |-> "timersLock", op |-> "TimerCallback",
                                      arg |-> t, seen |-> <<>>]]

\* a goroutine that holds i.mu takes its next step; i.timersMu is free
\* whenever the holder of i.mu asks for it
Proceeds(g) ==
    \/ /\ pc[g].at = "timersLock" /\ timersMu = ""
       /\ pc' = [pc EXCEPT ![g].at = "timersHeld"]
    \/ /\ pc[g].at = "timersHeld"
       /\ pc' = [pc EXCEPT ![g].at = "body"]
    \/ /\ pc[g].at = "body"
       /\ pc' = [pc EXCEPT ![g].at = "mid", ![g].seen = Fields]
    \/ /\ pc[g].at = "mid"
       /\ UsesTimers(pc[g].op) => timersMu = ""
       /\ pc' = [pc EXCEPT ![g].at = "unlock"]
    \/ /\ pc[g].at = "unlock"
       /\ pc' = [pc EXCEPT ![g] = Idle]

\* a goroutine that holds i.mu keeps running, and sync.Mutex hands the mutex
\* to every goroutine that waits for it, callers and timer callbacks alike (a
\* waiter is not starved)
FairLockSpec ==
    /\ LockSpec
    /\ \A g \in Callers : SF_mu(Acquires(g))
    /\ \A t \in LockTimers : SF_<<mu, pc>>(CallbackAcquires(t))
    /\ \A g \in Goroutines : WF_pc(Proceeds(g))

(***************************************************************************)
(* Validate (internal/ir validate.go): the set of issue codes it reports   *)
(***************************************************************************)
ErrCodeMissingInitial == "MISSING_INITIAL"
ErrCodeInitialNotFound == "INITIAL_NOT_FOUND"
ErrCodeInvalidTarget == "INVALID_TARGET"
ErrCodeMissingAction == "MISSING_ACTION"
ErrCodeMissingGuard == "MISSING_GUARD"
ErrCodeNoStates == "NO_STATES"
ErrCodeCompoundMissingInitial == "COMPOUND_MISSING_INITIAL"
ErrCodeCompoundInvalidInitial == "COMPOUND_INVALID_INITIAL"
ErrCodeInvalidParent == "INVALID_PARENT"
ErrCodeInvalidChild == "INVALID_CHILD"

Elems(seq) == {seq[k] : k \in 1..Len(seq)}

Issue(cond, code) == IF cond THEN {code} ELSE {}

ValidateTransition(m, trans) ==
    Issue(trans.Target \notin DOMAIN m.States, ErrCodeInvalidTarget)
    \cup Issue(trans.Guard # "" /\ trans.Guard \notin m.Guards, ErrCodeMissingGuard)
    \cup Issue(\E a \in Elems(trans.Actions) : a \notin m.Actions, ErrCodeMissingAction)

ValidateState(m, stateID) ==
    LET state == m.States[stateID]
    IN  (IF state.Type = StateTypeCompound
         THEN Issue(state.Initial = "", ErrCodeCompoundMissingInitial)
              \cup Issue(state.Initial # "" /\ state.Initial \notin Elems(state.Children),
                         ErrCodeCompoundInvalidInitial)
              \cup Issue(\E childID \in Elems(state.Children) :
                            \/ childID \notin DOMAIN m.States
                            \/ m.States[childID].Parent # stateID,
                         ErrCodeInvalidChild)
         ELSE {})
        \cup Issue(state.Parent # ""
                      /\ (\/ state.Parent \notin DOMAIN m.States
                          \/ m.States[state.Parent].Type # StateTypeCompound),
                   ErrCodeInvalidParent)
        \cup Issue(\E a \in Elems(state.Entry) \cup Elems(state.Exit) : a \notin m.Actions,
                   ErrCodeMissingAction)
        \cup UNION {ValidateTransition(m, state.Transitions[k]) :
                       k \in 1..Len(state.Transitions)}

Validate(m) ==
    Issue(m.Initial = "", ErrCodeMissingInitial)
    \cup Issue(DOMAIN m.States = {}, ErrCodeNoStates)
    \cup Issue(m.Initial # "" /\ DOMAIN m.States # {} /\ m.Initial \notin DOMAIN m.States,
               ErrCodeInitialNotFound)
    \cup UNION {ValidateState(m, stateID) : stateID \in DOMAIN m.States}

(***************************************************************************)
(* The IR queries as loops, on every machine of two states without         *)
(* actions and transitions that Validate accepts                           *)
(***************************************************************************)
\* iterations after which a loop is no longer followed
MaxWalk == 3

WalkStates(id) ==
    {BuildState(id, type, parent, initial, children, <<>>, <<>>, <<>>) :
        type \in {StateTypeAtomic, StateTypeCompound},
        parent \in {"", "a", "b"},
        initial \in {"", "a", "b"},
        children \in {<<>>, <<"a">>, <<"b">>}}

WalkMachines ==
    {NewMachineConfig("walk", initial, InitialContext, [a |-> sa, b |-> sb]) :
        initial \in {"a", "b"}, sa \in WalkStates("a"), sb \in WalkStates("b")}

\* the state ids a query is called with: the states and an id that names none
WalkIDs == DOMAIN M.States \cup {"zz"}

WalkInit == \E m \in WalkMachines : Validate(m) = {} /\ NewInterpreter(m)

\* GetAncestors(stateID), called directly or by GetPath, IsDescendantOf and
\* FindLCA: current := m.GetState(stateID)
CallGetAncestors(caller, stateID) ==
    /\ walk.done
    /\ walk' = [caller |-> caller, loop |-> "GetAncestors", at |-> stateID,
                seen |-> <<stateID>>, done |-> FALSE]
    /\ UNCHANGED <<ivars, snapshot, mu, timersMu, pc>>

\* one iteration of the loop of GetAncestors, or its end
GetAncestorsLoop ==
    /\ walk.loop = "GetAncestors" /\ ~walk.done
    /\ Len(walk.seen) <= MaxWalk
    /\ walk' = IF HasState(walk.at) /\ GetState(walk.at).Parent # ""
               THEN [walk EXCEPT !.at = GetState(walk.at).Parent,
                                 !.seen = Append(@, GetState(walk.at).Parent)]
               ELSE [walk EXCEPT !.done = TRUE]
    /\ UNCHANGED <<ivars, snapshot, mu, timersMu, pc>>

\* GetInitialLeaf(stateID), called directly or by Start for m.Initial
CallGetInitialLeaf(caller, stateID) ==
    /\ walk.done
    /\ walk' = [caller |-> caller, loop |-> "GetInitialLeaf", at |-> stateID,
                seen |-> <<stateID>>, done |-> FALSE]
    /\ UNCHANGED <<ivars, snapshot, mu, timersMu, pc>>

\* one call of the recursion of GetInitialLeaf
GetInitialLeafCall ==
    /\ walk.loop = "GetInitialLeaf" /\ ~walk.done
    /\ Len(walk.seen) <= MaxWalk
    /\ walk' = IF ~HasState(walk.at) THEN [walk EXCEPT !.done = TRUE]
               ELSE IF IsCompound(GetState(walk.at)) /\ GetState(walk.at).Initial # ""
                    THEN [walk EXCEPT !.at = GetState(walk.at).Initial,
                                      !.seen = Append(@, GetState(walk.at).Initial)]
                    ELSE [walk EXCEPT !.done = TRUE]
    /\ UNCHANGED <<ivars, snapshot, mu, timersMu, pc>>

WalkNext ==
    \/ \E caller \in {"GetAncestors", "GetPath", "IsDescendantOf", "FindLCA"} :
          \E stateID \in WalkIDs : CallGetAncestors(caller, stateID)
    \/ GetAncestorsLoop
    \/ \E stateID \in WalkIDs : CallGetInitialLeaf("GetInitialLeaf", stateID)
    \/ CallGetInitialLeaf("Start", M.Initial)
    \/ GetInitialLeafCall

WalkSpec == WalkInit /\ [][WalkNext]_vars

\* every key a timer of one of the machines can have
AllTimerKeys ==
    UNION {{TimerKey(stateID, idx) :
               idx \in {i \in 1..Len(MachineTable[name].States[stateID].Transitions) :
                           IsDelayed(MachineTable[name].States[stateID].Transitions[i])}} :
           <<name, stateID>> \in {<<n, st>> \in MachineNames \X
                                     UNION {DOMAIN MachineTable[n].States : n \in MachineNames} :
                                     st \in DOMAIN MachineTable[n].States}}

AllTimers == {Timer(key, gen) : key \in AllTimerKeys, gen \in 1..MaxGen}

\* the callback of timer t runs: TimerCallback(t) is the one step of Next
\* that takes t out of fired, and it is enabled exactly when t is in fired
CallbackRuns(t) ==
    /\ t \in fired
    /\ fired' = fired \ {t}

\* a timer callback that waits for i.mu gets it in the end (sync.Mutex
\* does not starve a waiter; no holder of i.mu blocks)
FairSpec ==
    /\ Spec
    /\ \A t \in AllTimers : WF_fired(CallbackRuns(t))


(***************************************************************************)
(* Vocabulary of the properties                                            *)
(***************************************************************************)
Pre == last.pre

\* the last operation was a Send or a timer callback on a started interpreter
\* whose configuration was outside any parallel state
OutsideParallel(c) ==
    /\ c.ActiveInParallel = EmptyMap
    /\ c.currentParallel = ""
    /\ HasState(c.Value)
    /\ ~IsParallel(GetState(c.Value))

TransitionOp == last.op \in {"Send", "TimerCallback"} /\ Pre.started

\* positions of the trace in a phase
Positions(ph) == {k \in 1..Len(trace) : trace[k].ph = ph}

\* states whose exit (entry) actions ran in the last operation
ExitedStates == {trace[k].st : k \in Positions("exit")}
EnteredStates == {trace[k].st : k \in Positions("entry")}

SeqToSet(seq) == {seq[k] : k \in 1..Len(seq)}

\* a is a proper ancestor of s, by the parent links alone
RECURSIVE ProperAncestor(_, _)
ProperAncestor(a, s) ==
    /\ HasState(s)
    /\ GetState(s).Parent # ""
    /\ (GetState(s).Parent = a \/ ProperAncestor(a, GetState(s).Parent))

\* the guard of transition t is absent or returns true on ctx
GuardTrue(t, ctx) == t.Guard = "" \/ ApplyGuard(t.Guard, ctx)

(***************************************************************************)
(* C1                                                                      *)
(***************************************************************************)
\* C1: a transition executed outside a parallel state runs the exit actions
\* of the exited states leaf to root, then the transition's actions in
\* declaration order, then the entry actions of the entered states root to
\* leaf: the trace is exit records, one transition record, entry records.
C1_ExitTransitionEntryOrder ==
    (TransitionOp /\ OutsideParallel(Pre) /\ trace # <<>>) =>
        \E k \in 1..Len(trace) :
            /\ trace[k].ph = "trans"
            /\ trace[k].acts = GetState(trace[k].st).Transitions[trace[k].idx].Actions
            /\ \A j \in 1..(k - 1) :
                  /\ trace[j].ph = "exit"
                  /\ trace[j].acts = GetState(trace[j].st).Exit
                  /\ j + 1 < k => trace[j + 1].st = GetState(trace[j].st).Parent
            /\ \A j \in (k + 1)..Len(trace) :
                  /\ trace[j].ph = "entry"
                  /\ trace[j].acts = GetState(trace[j].st).Entry
                  /\ \A j2 \in (j + 1)..Len(trace) :
                        /\ ~ProperAncestor(trace[j2].st, trace[j].st)
                        /\ (\A e \in EnteredStates : ~IsParallel(GetState(e)))
                              => ProperAncestor(trace[j].st, trace[j2].st)

\* a Send that exits three nested states, runs two transition actions and enters a state
C1_Witness ==
    /\ TransitionOp /\ OutsideParallel(Pre)
    /\ last.op = "Send"
    /\ Len(trace) = 5
    /\ trace[1].ph = "exit" /\ trace[3].ph = "exit" /\ trace[3].acts = <<"exit", "exit2">>
    /\ trace[4].ph = "trans" /\ Len(trace[4].acts) = 2
    /\ trace[5].ph = "entry"

(***************************************************************************)
(* C2                                                                      *)
(***************************************************************************)
\* the transitions Send(e) scans from leaf: those of the leaf and its ancestors
Candidates(leaf) ==
    {c \in [state : {leaf} \cup {a \in DOMAIN M.States : ProperAncestor(a, leaf)},
            idx : 1..5] :
        c.idx <= Len(GetState(c.state).Transitions)}

\* c is scanned before d: a descendant first, declaration order within a state
ScannedBefore(c, d) ==
    \/ ProperAncestor(d.state, c.state)
    \/ (c.state = d.state /\ c.idx < d.idx)

EnabledFor(c, type, ctx) ==
    /\ TransitionOf(c).Event = type
    /\ GuardTrue(TransitionOf(c), ctx)

\* the first enabled transition of the scan, as a set with at most one element
Winners(leaf, type, ctx) ==
    {c \in Candidates(leaf) :
        /\ EnabledFor(c, type, ctx)
        /\ \A d \in Candidates(leaf) :
              EnabledFor(d, type, ctx) => (d = c \/ ScannedBefore(c, d))}

UpToExcluding(leaf, lca) ==
    {x \in DOMAIN M.States :
        /\ x = leaf \/ ProperAncestor(x, leaf)
        /\ lca = "" \/ ProperAncestor(lca, x)}

\* the states on path(target) strictly below lca
PathBelow(target, lca) ==
    {x \in SeqToSet(GetPath(target)) : lca = "" \/ ProperAncestor(lca, x)}

\* C3: a transition of state s with written target t # s, executed from a
\* configuration outside a parallel state, runs the exit actions of exactly
\* the states from the leaf up to but excluding lca(s, resolve(t)) and the
\* entry actions of exactly the states of path(resolve(t)) strictly below
\* that LCA (the regions entered inside a Parallel resolve(t) set aside),
\* whether resolve(t) is Atomic, Final or Parallel.
C3_ExitAndEntrySets ==
    (TransitionOp /\ OutsideParallel(Pre)) =>
        \A k \in Positions("trans") :
            LET s == trace[k].st
                t == GetState(s).Transitions[trace[k].idx].Target
                r == resolveTarget(Pre, t)
                lca == FindLCA(s, r)
            IN  t # s =>
                    /\ ExitedStates = UpToExcluding(Pre.Value, lca)
                    /\ {e \in EnteredStates : ~ProperAncestor(r, e)} = PathBelow(r, lca)

\* lobby -ENTER-> act has run: the parallel state act and its regions were
\* entered, the compound state wrap between the LCA and act was not
C3_SkippedAncestorEntry ==
    /\ last.op = "Send" /\ last.event = "ENTER" /\ Pre.Value = "lobby"
    /\ OutsideParallel(Pre)
    /\ Value = "act"
    /\ {"act", "r1", "r2"} \subseteq EnteredStates
    /\ "wrap" \in PathBelow("act", FindLCA("lobby", "act"))
    /\ "wrap" \notin EnteredStates

(***************************************************************************)
(* C4                                                                      *)
(***************************************************************************)
\* the states from x up to and including s
UpToIncluding(x, s) ==
    {y \in DOMAIN M.States :
        /\ y = x \/ ProperAncestor(y, x)
        /\ y = s \/ ProperAncestor(s, y)}

\* positions of the timer log with a call on timer t
LogPositions(call, t) ==
    {i \in 1..Len(timerLog) : timerLog[i].call = call /\ timerLog[i].timer = t}

HistoryTransitions(type) ==
    {k \in Positions("trans") :
        LET t == GetState(trace[k].st).Transitions[trace[k].idx].Target
        IN  /\ HasState(t)
            /\ IsHistory(GetState(t))
            /\ GetState(t).HistoryType = type
            /\ GetState(t).Parent \notin ExitedStates}

WrittenTarget(k) == GetState(GetState(trace[k].st).Transitions[trace[k].idx].Target)

\* the immediate child of P on the way down to leaf
ChildToward(P, leaf) ==
    CHOOSE c \in SeqToSet(GetState(P).Children) : c = leaf \/ ProperAncestor(c, leaf)

\* C5: a transition whose written target is a shallow History state H of
\* compound P lands in initial_leaf(c), c the immediate child of P that was
\* active when P was last left, and in initial_leaf(H.history_default) if
\* P has never been left.
C5_ShallowHistory ==
    TransitionOp =>
        \A k \in HistoryTransitions(HistoryTypeShallow) :
            LET H == WrittenTarget(k)
                P == H.Parent
            IN  ActiveLeafUnder(P) =
                    IF P \in DOMAIN leftFrom
                    THEN GetInitialLeaf(ChildToward(P, leftFrom[P]))
                    ELSE GetInitialLeaf(H.HistoryDefault)

\* box was left from b2 by a transition of the region r2; r2_idle -RESUME->
\* bhist then lands in b1, the default, and not in b2
C5_RegionHistoryLost ==
    /\ last.op = "Send" /\ last.event = "RESUME" /\ machine.ID = "par"
    /\ HistoryTransitions(HistoryTypeShallow) # {}
    /\ "box" \in DOMAIN leftFrom /\ leftFrom["box"] = "b2"
    /\ "box" \notin DOMAIN Pre.shallowHistory
    /\ ActiveLeafUnder("box") = "b1"

\* C6: a transition whose written target is a deep History state H of
\* compound P makes the leaf that was current when P was last left current
\* again, and lands in initial_leaf(H.history_default) if P has never been left.
C6_DeepHistory ==
    TransitionOp =>
        \A k \in HistoryTransitions(HistoryTypeDeep) :
            LET H == WrittenTarget(k)
                P == H.Parent
            IN  ActiveLeafUnder(P) =
                    IF P \in DOMAIN leftFrom
                    THEN leftFrom[P]
                    ELSE GetInitialLeaf(H.HistoryDefault)

\* box was left from b2 when the parallel state was left; after re-entry
\* r2_idle -DEEP-> bdhist lands in b1, the default, and not in b2
C6_RegionHistoryLost ==
    /\ last.op = "Send" /\ last.event = "DEEP" /\ machine.ID = "par"
    /\ HistoryTransitions(HistoryTypeDeep) # {}
    /\ "box" \in DOMAIN leftFrom /\ leftFrom["box"] = "b2"
    /\ "box" \notin DOMAIN Pre.deepHistory
    /\ ActiveLeafUnder("box") = "b1"

(***************************************************************************)
(* C7                                                                      *)
(***************************************************************************)
\* configuration c has the parallel state c.Value active with its regions
InParallel(c) ==
    /\ HasState(c.Value)
    /\ IsParallel(GetState(c.Value))
    /\ c.currentParallel = c.Value
    /\ DOMAIN c.ActiveInParallel = SeqToSet(GetState(c.Value).Children)

\* state P has a transition for the event type that is enabled on ctx
HasEnabled(P, type, ctx) ==
    \E idx \in 1..Len(GetState(P).Transitions) :
        EnabledFor(Source(P, idx), type, ctx)

\* the first enabled transition of the scan from the region's leaf up to the
\* region R (up to the root when R is not on the leaf's path), as a set with
\* at most one element
RegionWinners(leaf, R, type, ctx) ==
    LET cands == {c \in Candidates(leaf) :
                     (leaf = R \/ ProperAncestor(R, leaf))
                         => (c.state = R \/ ProperAncestor(R, c.state))}
    IN  {c \in cands :
            /\ EnabledFor(c, type, ctx)
            /\ \A d \in cands : EnabledFor(d, type, ctx) => (d = c \/ ScannedBefore(c, d))}

\* the records of the trace that follow visit v up to the next visit
Segment(v) ==
    {k \in (v + 1)..Len(trace) : \A w \in Positions("visit") : w <= v \/ k < w}

\* C7: while parallel state P is active and no transition of P is enabled,
\* one Send(e) visits every region once; a region with an enabled transition
\* for e between its leaf and the region (on the context at its visit) takes
\* exactly that one transition and its ActiveInParallel entry becomes the
\* resolved target; a region without one runs no action and keeps its
\* entry; Value stays P.
C7_Broadcast ==
    (last.op = "Send" /\ Pre.started /\ InParallel(Pre)
       /\ ~HasEnabled(Pre.Value, last.event, Pre.Context)) =>
        LET P == Pre.Value
            visits == Positions("visit")
        IN  /\ Value = P
            /\ DOMAIN ActiveInParallel = DOMAIN Pre.ActiveInParallel
            /\ Cardinality(visits) = Len(GetState(P).Children)
            /\ {trace[v].st : v \in visits} = SeqToSet(GetState(P).Children)
            /\ trace[1].ph = "visit"
            /\ \A v \in visits :
                  LET R == trace[v].st
                      leaf == Pre.ActiveInParallel[R]
                      win == RegionWinners(leaf, R, last.event, trace[v].ctx)
                  IN  /\ Cardinality(win) <= 1
                      /\ win = {} => (Segment(v) = {} /\ ActiveInParallel[R] = leaf)
                      /\ \A w \in win :
                            /\ Cardinality(Segment(v) \cap Positions("trans")) = 1
                            /\ \A k \in Segment(v) \cap Positions("trans") :
                                  trace[k].st = w.state /\ trace[k].idx = w.idx
                            /\ ActiveInParallel[R] =
                                   resolveTarget(Pre, TransitionOf(w).Target)

\* GO is broadcast while r1 is in r1_working and r2 in b1: r1 has no
\* transition for GO and keeps its leaf, r2 takes b1 -GO-> b2
C7_Witness ==
    /\ last.op = "Send" /\ last.event = "GO" /\ Pre.started /\ InParallel(Pre)
    /\ Pre.Value = "act"
    /\ Pre.ActiveInParallel = [r1 |-> "r1_working", r2 |-> "b1"]
    /\ ActiveInParallel = [r1 |-> "r1_working", r2 |-> "b2"]
    /\ Cardinality(Positions("visit")) = 2
    /\ Cardinality(Positions("trans")) = 1
    /\ Value = "act"

(***************************************************************************)
(* C8                                                                      *)
(***************************************************************************)
\* positions of the trace where the exit actions of state x ran
ExitsOf(x) == {j \in Positions("exit") : trace[j].st = x}

\* C8: when Send(e) matches a transition of the active parallel state P,
\* every region is exited from its leaf up to and including the region,
\* then P is exited, its exit actions running exactly once, then the
\* transition's actions run, then the target is entered; afterwards
\* ActiveInParallel is empty and Value is the resolved target.
C8_ParallelExit ==
    (last.op = "Send" /\ Pre.started /\ InParallel(Pre)
       /\ HasEnabled(Pre.Value, last.event, Pre.Context)) =>
        LET P == Pre.Value
        IN  /\ Cardinality(Positions("trans")) = 1
            /\ \A k \in Positions("trans") :
                  /\ trace[k].st = P
                  /\ \A j \in 1..(k - 1) : trace[j].ph = "exit"
                  /\ \A j \in (k + 1)..Len(trace) : trace[j].ph = "entry"
                  /\ Value = resolveTarget(Pre, GetState(P).Transitions[trace[k].idx].Target)
            /\ \A R \in DOMAIN Pre.ActiveInParallel :
                  \A x \in UpToIncluding(Pre.ActiveInParallel[R], R) :
                      /\ Cardinality(ExitsOf(x)) = 1
                      /\ \A j \in ExitsOf(x) : \A jp \in ExitsOf(P) : j < jp
            /\ Cardinality(ExitsOf(P)) = 1
            /\ ActiveInParallel = EmptyMap

\* act -CANCEL-> cancelled has run: the regions were exited once, the exit
\* actions of the parallel state act ran twice
C8_DoubleExit ==
    /\ last.op = "Send" /\ last.event = "CANCEL" /\ Pre.started /\ InParallel(Pre)
    /\ Pre.Value = "act" /\ Value = "cancelled"
    /\ Cardinality(ExitsOf("r1")) = 1 /\ Cardinality(ExitsOf("r2")) = 1
    /\ Cardinality(ExitsOf("act")) = 2
    /\ ActiveInParallel = EmptyMap

(***************************************************************************)
(* C9                                                                      *)
(***************************************************************************)
\* the states from region R down to its initial leaf, root to leaf
RegionPath(R) ==
    LET full == GetPath(GetInitialLeaf(R))
        from == CHOOSE i \in 1..Len(full) : full[i] = R
    IN  SubSeq(full, from, Len(full))

\* the region paths of the regions, one after the other in the given order
RECURSIVE RegionPaths(_)
RegionPaths(regions) ==
    IF regions = <<>> THEN <<>>
    ELSE RegionPath(Head(regions)) \o RegionPaths(Tail(regions))

\* positions of the trace where a parallel state is entered
ParallelEntries ==
    {p \in Positions("entry") : IsParallel(GetState(trace[p].st))}

\* C9: an operation that enters a parallel state P (Start or a transition)
\* runs P's entry actions, then, region by region in the order of P's
\* children, the entry actions from the region down to its initial leaf,
\* and nothing after; it ends with Value = P and
\* ActiveInParallel[R] = initial_leaf(R) for every region R of P.
C9_ParallelEntry ==
    \A p \in ParallelEntries :
        LET P == trace[p].st
            regions == GetState(P).Children
            expected == RegionPaths(regions)
        IN  /\ trace[p].acts = GetState(P).Entry
            /\ Len(trace) = p + Len(expected)
            /\ \A j \in 1..Len(expected) :
                  /\ trace[p + j].ph = "entry"
                  /\ trace[p + j].st = expected[j]
                  /\ trace[p + j].acts = GetState(expected[j]).Entry
            /\ Value = P
            /\ \A k \in 1..Len(regions) :
                  /\ regions[k] \in DOMAIN ActiveInParallel
                  /\ ActiveInParallel[regions[k]] = GetInitialLeaf(regions[k])

\* side -ENTER-> act has run: act, then r1 and r1_idle, then r2 and r2_idle
C9_Witness ==
    /\ last.op = "Send" /\ last.event = "ENTER" /\ Pre.Value = "side"
    /\ ParallelEntries # {}
    /\ \E p \in ParallelEntries :
          /\ trace[p].st = "act"
          /\ Len(trace) = p + 4
          /\ trace[p + 1].st = "r1" /\ trace[p + 2].st = "r1_idle"
          /\ trace[p + 3].st = "r2" /\ trace[p + 4].st = "r2_idle"
    /\ Value = "act"
    /\ ActiveInParallel = [r1 |-> "r1_idle", r2 |-> "r2_idle"]

(***************************************************************************)
(* C10                                                                     *)
(***************************************************************************)
\* C10: once a state s has been exited and not entered again, a timer
\* callback for an After transition of s executes nothing: no action runs
\* and Value does not change, also when the timer had elapsed before s was
\* exited and its callback was waiting for the lock.
C10_NoDelayedTransitionAfterExit ==
    (last.op = "TimerCallback" /\ last.source.state \in Pre.exitedSince) =>
        (trace = <<>> /\ Value = Pre.Value)

\* the timers of tp and of ta_idle had both elapsed; the callback of
\* ta_idle ran first and exited tp; the callback of tp then still executed
\* tp's After transition
C10_ExitedStateTimerRuns ==
    /\ last.op = "TimerCallback" /\ last.source.state = "tp"
    /\ "tp" \in Pre.exitedSince
    /\ Pre.Value = "ta_busy"
    /\ Positions("trans") # {}
    /\ Value = "out"

(***************************************************************************)
(* C11                                                                     *)
(***************************************************************************)
\* the leaf of configuration c from which state s would be left
LeafAt(c, s) ==
    IF c.Value = s \/ ProperAncestor(s, c.Value) THEN c.Value
    ELSE IF \E r \in DOMAIN c.ActiveInParallel :
                c.ActiveInParallel[r] = s \/ ProperAncestor(s, c.ActiveInParallel[r])
         THEN c.ActiveInParallel[CHOOSE r \in DOMAIN c.ActiveInParallel :
                 c.ActiveInParallel[r] = s \/ ProperAncestor(s, c.ActiveInParallel[r])]
         ELSE ""

\* state key[1] is active on a started interpreter and a timer of its After
\* transition key[2] has elapsed: its callback waits for the lock
Waiting(key) ==
    /\ started
    /\ HasState(key[1])
    /\ matchesUnlocked(Cur, key[1])
    /\ \E t \in fired : t.key = key

\* the last operation was the callback of the After transition key and it
\* executed the transition once: the states from the leaf up to the owner
\* were exited, the transition's actions ran, the target was entered
ExecutedDelayed(key) ==
    /\ last.op = "TimerCallback" /\ last.source = Source(key[1], key[2])
    /\ Cardinality(Positions("trans")) = 1
    /\ \A k \in Positions("trans") :
          /\ trace[k].st = key[1] /\ trace[k].idx = key[2]
          /\ trace[k].acts = TransitionOf(last.source).Actions
    /\ UpToIncluding(LeafAt(Pre, key[1]), key[1]) \subseteq ExitedStates
    /\ \A x \in ExitedStates : Cardinality(ExitsOf(x)) = 1
    /\ resolveTarget(Pre, TransitionOf(last.source).Target) \in EnteredStates
    /\ matchesUnlocked(Cur, resolveTarget(Pre, TransitionOf(last.source).Target))

\* the interpreter was stopped, or another transition exited the owner
Released(key) ==
    \/ last.op = "Stop"
    \/ /\ last.op \in {"Send", "TimerCallback"}
       /\ last.source # Source(key[1], key[2])
       /\ key[1] \in ExitedStates

\* C11: once the timer of an unguarded After transition has fired while its
\* state is active, then (callbacks get the lock) the transition executes,
\* exactly once and with the exits from the leaf up to the state, its
\* actions and the entry of its target, unless the interpreter is stopped
\* or another transition exits the state first.
C11_DelayedTransitionExecutes ==
    \A key \in AllTimerKeys :
        Waiting(key) ~> (ExecutedDelayed(key) \/ Released(key))

\* the callback of ta_idle's After transition has run inside the parallel
\* state tp: ta_idle was not exited, tp was
C11_RegionTimerExitsParallel ==
    /\ last.op = "TimerCallback" /\ last.source = Source("ta_idle", 1)
    /\ Pre.Value = "tp" /\ Pre.ActiveInParallel["ta"] = "ta_idle"
    /\ Positions("trans") # {}
    /\ "ta_idle" \notin ExitedStates
    /\ "tp" \in ExitedStates
    /\ Value = "ta_busy"

\* the execution state is as the last operation found it
SameConfiguration ==
    /\ Value = Pre.Value
    /\ ActiveInParallel = Pre.ActiveInParallel
    /\ Context = Pre.Context
    /\ shallowHistory = Pre.shallowHistory
    /\ deepHistory = Pre.deepHistory

\* C12: the callback of a timer that was scheduled before a Stop executes
\* nothing after that Stop has returned: no action runs and the
\* configuration, the context and the history stay as they were, whatever
\* was called in between.
C12_NoDelayedTransitionAfterStop ==
    (last.op = "TimerCallback" /\ last.stale) => (trace = <<>> /\ SameConfiguration)

\* a callback that was waiting for the lock when Stop ran has executed its
\* transition after a later Start
C12_StaleTimerRunsAfterRestart ==
    /\ last.op = "TimerCallback" /\ last.stale
    /\ lifecycle = "Stopped" /\ started
    /\ Positions("trans") # {}
    /\ Value # Pre.Value

\* C13: Stopped is terminal: once Stop has been called on a running
\* interpreter, no later Start, Send or timer callback runs an action or
\* changes the leaf, the active regions, the context or the history, so
\* the initial entry is performed at most once.
C13_StoppedIsTerminal ==
    (lifecycle = "Stopped" /\ last.op \in {"Start", "Send", "TimerCallback"})
        => (trace = <<>> /\ SameConfiguration)

\* Start after Stop has performed the initial entry a second time
C13_RestartAfterStop ==
    /\ lifecycle = "Stopped"
    /\ last.op = "Start" /\ ~Pre.started
    /\ Pre.Value # ""
    /\ started
    /\ EnteredStates # {}
    /\ matchesUnlocked(Cur, M.Initial)

\* C14: Start on a running interpreter is a no-op: no action runs, no timer
\* is scheduled or stopped, and the leaf, the active regions, the context,
\* the history and the timer table stay as they were.
C14_StartWhenRunningIsNoOp ==
    (last.op = "Start" /\ Pre.started)
        => /\ trace = <<>>
           /\ timerLog = <<>>
           /\ SameConfiguration
           /\ timers = Pre.timers
           /\ started

\* Start was called on a running interpreter that had left its initial
\* leaf and has a timer callback waiting
C14_Witness ==
    /\ last.op = "Start" /\ Pre.started
    /\ Pre.Value # GetInitialLeaf(M.Initial)
    /\ fired # {}

\* C15: after Stop the timer table is empty and the interpreter is not
\* started; Stop on an interpreter that is already stopped changes no part
\* of the interpreter's state.
C15_StopClearsTimersAndIsIdempotent ==
    last.op = "Stop"
        => /\ timers = EmptyMap
           /\ ~started
           /\ ~Pre.started
                 => /\ SameConfiguration
                    /\ timers = Pre.timers
                    /\ currentParallel = Pre.currentParallel
                    /\ trace = <<>>

\* Stop was called on an interpreter that an earlier Stop had stopped
C15_Witness ==
    /\ last.op = "Stop" /\ ~Pre.started
    /\ lifecycle = "Stopped"
    /\ Value # ""

NoEnabledTransition(c, type) ==
    IF HasState(c.Value) /\ IsParallel(GetState(c.Value))
    THEN /\ ~HasEnabled(c.Value, type, c.Context)
         /\ \A R \in DOMAIN c.ActiveInParallel :
               RegionWinners(c.ActiveInParallel[R], R, type, c.Context) = {}
    ELSE HasState(c.Value) => Winners(c.Value, type, c.Context) = {}

\* C17: a Send on a started interpreter that finds no enabled transition
\* runs no action and leaves the leaf, the active regions, the context,
\* the history maps and the scheduled timers unchanged.
C17_NoEnabledTransitionNoChange ==
    (last.op = "Send" /\ Pre.started /\ NoEnabledTransition(Pre, last.event))
        => /\ Positions("exit") \cup Positions("trans") \cup Positions("entry") = {}
           /\ SameConfiguration
           /\ timers = Pre.timers
           /\ timerLog = <<>>

\* after tp's timer moved the leaf to out, Send(CANCEL) finds no transition
\* on the path of out and still runs tp's CANCEL transition
C17_StaleParallelTakesEvent ==
    /\ last.op = "Send" /\ Pre.started
    /\ NoEnabledTransition(Pre, last.event)
    /\ Pre.Value = "out" /\ Pre.currentParallel = "tp"
    /\ last.event = "CANCEL"
    /\ "tp" \in ExitedStates
    /\ Positions("trans") # {}

\* the states from the machine's initial state down to its initial leaf
InitialPath ==
    {s \in DOMAIN M.States :
        /\ s = M.Initial \/ ProperAncestor(M.Initial, s)
        /\ s = GetInitialLeaf(M.Initial) \/ ProperAncestor(s, GetInitialLeaf(M.Initial))}

\* position of state s on InitialPath, counted from the initial state
InitialPathPos(s) == 1 + Cardinality({a \in InitialPath : ProperAncestor(a, s)})

\* the timer keys of the delayed transitions of state s
DelayedKeys(s) ==
    {TimerKey(s, idx) : idx \in {i \in 1..Len(GetState(s).Transitions) :
                                    IsDelayed(GetState(s).Transitions[i])}}

\* C18: the first Start of an interpreter whose initial chain has no
\* parallel state sets the leaf to the initial leaf and runs the entry
\* actions of exactly the states from the initial state down to that leaf,
\* root to leaf, and schedules each entered state's delayed transitions
\* right after that state's entry actions, each one once.
C18_StartEntersInitialPath ==
    (/\ last.op = "Start" /\ ~Pre.started /\ lifecycle = "Running"
     /\ \A s \in InitialPath : ~IsParallel(GetState(s)))
        => /\ Value = GetInitialLeaf(M.Initial)
           /\ ActiveInParallel = EmptyMap
           /\ Len(trace) = Cardinality(InitialPath)
           /\ \A k \in 1..Len(trace) :
                 /\ trace[k].ph = "entry"
                 /\ trace[k].st \in InitialPath
                 /\ InitialPathPos(trace[k].st) = k
                 /\ trace[k].acts = GetState(trace[k].st).Entry
           /\ \A i \in 1..Len(timerLog) :
                 /\ timerLog[i].call = "AfterFunc"
                 /\ timerLog[i].timer.key[1] \in InitialPath
                 /\ timerLog[i].timer.key \in DelayedKeys(timerLog[i].timer.key[1])
                 /\ timerLog[i].at = InitialPathPos(timerLog[i].timer.key[1])
                 /\ timerLog[i].timer \in armed
                 /\ timers[timerLog[i].timer.key] = timerLog[i].timer
           /\ \A s \in InitialPath : \A key \in DelayedKeys(s) :
                 Cardinality({i \in 1..Len(timerLog) : timerLog[i].timer.key = key}) = 1

\* the first Start of machine delayed has entered parent and child and
\* scheduled the timer of each
C18_Witness ==
    /\ last.op = "Start" /\ ~Pre.started /\ lifecycle = "Running"
    /\ machine.ID = "delayed"
    /\ Value = "child"
    /\ Len(trace) = 2 /\ Len(timerLog) = 2
    /\ timerLog[1].timer.key[1] = "parent" /\ timerLog[1].at = 1
    /\ timerLog[2].timer.key[1] = "child" /\ timerLog[2].at = 2

\* id lies on path(leaf): it is the leaf or one of its ancestors
OnPath(id, leaf) == id = leaf \/ ProperAncestor(id, leaf)

\* C19: in every reachable state Matches(id) is true exactly when id lies
\* on the path of the leaf or on the path of the active leaf of some
\* region; checked for every state id of the machine and an unknown id.
C19_MatchesActivePaths ==
    \A id \in DOMAIN M.States \cup {"nosuch"} :
        Matches(id) <=> \/ OnPath(id, Value)
                        \/ \E R \in DOMAIN ActiveInParallel :
                              OnPath(id, ActiveInParallel[R])

\* inside the parallel state act: the region leaf b1, its compound parent,
\* the parallel state and its ancestor match, a sibling of b1 does not
C19_Witness ==
    /\ started /\ machine.ID = "par"
    /\ Value = "act"
    /\ ActiveInParallel["r2"] = "b1"
    /\ Matches("b1") /\ Matches("box") /\ Matches("r2") /\ Matches("act") /\ Matches("wrap")
    /\ ~Matches("b2")

\* the exit, transition and entry records of a trace: the actions executed
ExecutedActions(tr) == SelectSeq(tr, LAMBDA r : r.ph # "visit")

\* the last Send repeated from the state it started in, with the regions
\* ranged over in the given order
Replay(order) ==
    send([Cur EXCEPT !.Value = Pre.Value, !.Context = Pre.Context,
                     !.ActiveInParallel = Pre.ActiveInParallel,
                     !.started = Pre.started,
                     !.shallowHistory = Pre.shallowHistory,
                     !.deepHistory = Pre.deepHistory,
                     !.timers = Pre.timers,
                     !.currentParallel = Pre.currentParallel],
         Event(last.event), order)

\* the orders in which the last Send could have ranged over the regions
ReplayOrders ==
    IF Pre.currentParallel # "" THEN Orders(DOMAIN Pre.ActiveInParallel) ELSE {<<>>}

\* C20: execution is deterministic: a Send from a given state with a given
\* event has one outcome, so every run of the same call from the same state
\* executes the same actions in the same order and ends with the same leaf,
\* active regions and context as the run that was taken.
C20_Deterministic ==
    (last.op = "Send" /\ Pre.started) =>
        \A order \in ReplayOrders :
            /\ ExecutedActions(Replay(order).trace) = ExecutedActions(trace)
            /\ Replay(order).Value = Value
            /\ Replay(order).ActiveInParallel = ActiveInParallel
            /\ Replay(order).Context = Context

\* Send(GO) in the parallel state act visited r2 before r1: r2's guarded
\* transition did not fire; with r1 visited first it fires
C20_RegionOrderChangesOutcome ==
    /\ last.op = "Send" /\ last.event = "GO" /\ Pre.started
    /\ machine.ID = "par" /\ Pre.Value = "act"
    /\ Pre.ActiveInParallel = [r1 |-> "r1_idle", r2 |-> "r2_idle"]
    /\ last.order = <<"r2", "r1">>
    /\ ActiveInParallel = [r1 |-> "r1_working", r2 |-> "r2_idle"]
    /\ Replay(<<"r1", "r2">>).ActiveInParallel = [r1 |-> "r1_working", r2 |-> "b1"]

\* C21: a transition whose builder received several Guard calls is taken
\* only if all the named guards return true on the context Send found.
C21_AllGuardsMustPass ==
    (/\ last.op = "Send" /\ Pre.started /\ machine.ID = "delayed"
     /\ \E k \in Positions("trans") : trace[k].st = "parent" /\ trace[k].idx = 2)
        => \A g \in 1..Len(BackGuards) : ApplyGuard(BackGuards[g], Pre.Context)

\* parent's BACK transition ran on a context where its first guard,
\* isMarked, is false
C21_FirstGuardIgnored ==
    /\ last.op = "Send" /\ last.event = "BACK" /\ Pre.started
    /\ machine.ID = "delayed" /\ Pre.Value = "child"
    /\ ~ApplyGuard("isMarked", Pre.Context)
    /\ \E k \in Positions("trans") : trace[k].st = "parent" /\ trace[k].idx = 2
    /\ Value = "done"

\* the timer key of the transition the last operation was about
LastKey == TimerKey(last.source.state, last.source.idx)

\* C22: the callback of a timer whose state has not been continuously
\* active since the timer was scheduled executes nothing, and a timer that
\* a later entry of the state registered under the same key stays
\* registered.
C22_OldCallbackDoesNothing ==
    (last.op = "TimerCallback" /\ last.orphan)
        => /\ trace = <<>>
           /\ SameConfiguration
           /\ (LastKey \in DOMAIN Pre.timers /\ Pre.timers[LastKey] \notin last.ran)
                 => (LastKey \in DOMAIN timers /\ timers[LastKey] = Pre.timers[LastKey])

\* child was exited and entered again while the callback of its first timer
\* waited: the old callback ran the transition and removed the new timer
\* from the table, where it can no longer be cancelled
C22_OldCallbackRunsAndUnregisters ==
    /\ last.op = "TimerCallback" /\ last.orphan
    /\ machine.ID = "delayed" /\ last.source = Source("child", 1)
    /\ LastKey \in DOMAIN Pre.timers /\ Pre.timers[LastKey] \notin last.ran
    /\ Pre.timers[LastKey] \in armed
    /\ LastKey \notin DOMAIN timers
    /\ Positions("trans") # {}
    /\ Pre.Value = "child" /\ Value = "done"

\* the leaf is a parallel state
LeafIsParallel == HasState(Value) /\ IsParallel(GetState(Value))

\* C23: after every completed operation the active regions are non-empty
\* exactly when the leaf is a parallel state, and then their keys are the
\* regions of that state; so every transition that leaves a parallel state,
\* by an event or by a timer, leaves the active regions empty.
C23_ActiveRegionsIffParallelLeaf ==
    /\ (ActiveInParallel # EmptyMap) <=> LeafIsParallel
    /\ LeafIsParallel => DOMAIN ActiveInParallel = SeqToSet(GetState(Value).Children)

\* the timer of parallel state tp has taken its transition to out and the
\* active regions still hold the leaves of tp's regions
C23_TimerExitKeepsRegions ==
    /\ last.op = "TimerCallback" /\ last.source = Source("tp", 2)
    /\ Pre.Value = "tp" /\ Value = "out"
    /\ "tp" \in ExitedStates
    /\ ActiveInParallel = [ta |-> "ta_idle", tb |-> "tb"]
    /\ currentParallel = "tp"

\* C24: whenever the leaf is a parallel state, the active regions have
\* exactly one entry per child region of it and each value is an atomic or
\* final state inside that region's subtree, whatever the written target of
\* a region transition.
C24_RegionLeavesInsideRegions ==
    LeafIsParallel =>
        /\ DOMAIN ActiveInParallel = SeqToSet(GetState(Value).Children)
        /\ \A r \in DOMAIN ActiveInParallel :
              /\ HasState(ActiveInParallel[r])
              /\ GetState(ActiveInParallel[r]).Type \in {StateTypeAtomic, StateTypeFinal}
              /\ \/ ActiveInParallel[r] = r
                 \/ IsDescendantOf(ActiveInParallel[r], r)

\* the transition of ca1 written with target cb2 has run in region ca, and
\* region ca's entry now names cb2, a state of region cb
C24_RegionEntryInOtherRegion ==
    /\ last.op = "Send" /\ last.event = "JUMP"
    /\ Pre.Value = "cp" /\ Pre.ActiveInParallel["ca"] = "ca1"
    /\ Value = "cp"
    /\ ActiveInParallel["ca"] = "cb2"
    /\ ~IsDescendantOf("cb2", "ca")

\* C25: in every reachable state of a started interpreter the leaf names an
\* existing state whose kind is atomic, final or parallel; it is never a
\* compound state and never a history pseudo-state.
C25_LeafKind ==
    started =>
        /\ HasState(Value)
        /\ GetState(Value).Type \in {StateTypeAtomic, StateTypeFinal, StateTypeParallel}

\* Start has entered compound state cont, whose initial child is its history
\* state, and the leaf is that history pseudo-state
C25_LeafIsHistoryState ==
    /\ started /\ last.op = "Start"
    /\ machine.ID = "hinit"
    /\ Value = "chist"
    /\ IsHistory(GetState(Value))

\* some proper descendant of P was exited in the last operation
DescendantExited(P) == \E s \in ExitedStates : ProperAncestor(P, s)

\* C26: for every compound state P, shallow and deep history of P are both
\* populated if some descendant of P (a child or a deeper state, exited by a
\* hierarchical transition, by a region transition or by leaving a parallel
\* state) has ever been exited, and both are empty otherwise.  Stated per
\* operation: the two maps agree on P, a populated entry stays populated, an
\* operation that exits a descendant of P leaves both populated, and an entry
\* becomes populated only in an operation that exits a descendant of P.
C26_HistoryPopulatedIffDescendantExited ==
    \A P \in DOMAIN M.States :
        GetState(P).Type = StateTypeCompound =>
            /\ (P \in DOMAIN shallowHistory) <=> (P \in DOMAIN deepHistory)
            /\ P \in DOMAIN Pre.shallowHistory => P \in DOMAIN shallowHistory
            /\ DescendantExited(P)
                  => (P \in DOMAIN shallowHistory /\ P \in DOMAIN deepHistory)
            /\ (P \in DOMAIN shallowHistory /\ P \notin DOMAIN Pre.shallowHistory)
                  => DescendantExited(P)

\* the region transition box -BACK-> r2_idle has exited a child of box and
\* box itself, a child of r2, and neither compound state has history
C26_RegionExitRecordsNothing ==
    /\ last.op = "Send" /\ last.event = "BACK" /\ machine.ID = "par"
    /\ Pre.Value = "act" /\ Value = "act"
    /\ Pre.ActiveInParallel["r2"] \in {"b1", "b2"}
    /\ ActiveInParallel["r2"] = "r2_idle"
    /\ Pre.ActiveInParallel["r2"] \in ExitedStates /\ "box" \in ExitedStates
    /\ "box" \notin DOMAIN shallowHistory /\ "box" \notin DOMAIN deepHistory
    /\ "r2" \notin DOMAIN shallowHistory /\ "r2" \notin DOMAIN deepHistory

\* C27: in an operation that executes a single transition whose written
\* target differs from its owning state, no state has both its exit actions
\* and its entry actions executed.
C27_ExitAndEntryExclusive ==
    (/\ TransitionOp
     /\ Cardinality(Positions("trans")) = 1
     /\ \A k \in Positions("trans") : WrittenTarget(k).ID # trace[k].st)
        => ExitedStates \cap EnteredStates = {}

\* with leaf c1, the transition cont -GO-> c1 of its parent has exited c1
\* and entered it again
C27_TargetLeafExitedAndEntered ==
    /\ last.op = "Send" /\ last.event = "GO" /\ machine.ID = "hinit"
    /\ Pre.Value = "c1" /\ Value = "c1"
    /\ \E k \in Positions("trans") : trace[k].st = "cont" /\ WrittenTarget(k).ID = "c1"
    /\ Cardinality(Positions("trans")) = 1
    /\ "c1" \in ExitedStates /\ "c1" \in EnteredStates

\* C28: while parallel state P is active, a Send whose event has no enabled
\* transition on P itself but an enabled one on an ancestor of P takes that
\* ancestor's transition: it is the only transition executed, and the
\* regions and P are exited.
C28_AncestorOfParallelHandlesEvent ==
    (/\ last.op = "Send" /\ Pre.started /\ InParallel(Pre)
     /\ ~HasEnabled(Pre.Value, last.event, Pre.Context)
     /\ Winners(Pre.Value, last.event, Pre.Context) # {})
        => /\ Positions("trans") # {}
           /\ \A k \in Positions("trans") :
                 Source(trace[k].st, trace[k].idx)
                     \in Winners(Pre.Value, last.event, Pre.Context)
           /\ Pre.Value \in ExitedStates
           /\ DOMAIN Pre.ActiveInParallel \subseteq ExitedStates

\* with parallel state act active and the context unmarked, ESC is enabled
\* only on act's parent wrap; the Send visited the regions, executed nothing
\* and act stays active
C28_AncestorTransitionDropped ==
    /\ last.op = "Send" /\ last.event = "ESC" /\ machine.ID = "par"
    /\ Pre.started /\ InParallel(Pre) /\ Pre.Value = "act"
    /\ ~HasEnabled("act", "ESC", Pre.Context)
    /\ Winners("act", "ESC", Pre.Context) = {Source("wrap", 1)}
    /\ Positions("visit") # {}
    /\ Positions("exit") \cup Positions("trans") \cup Positions("entry") = {}
    /\ SameConfiguration

\* position of region r among the children of parallel state P
ChildIndex(P, r) ==
    CHOOSE k \in 1..Len(GetState(P).Children) : GetState(P).Children[k] = r

\* every record of the trace saw the context left by the record before it
Sequential ==
    \A k \in 1..Len(trace) :
        trace[k].ctx = IF k = 1 THEN Pre.Context
                       ELSE RunActions(trace[k - 1].acts, trace[k - 1].ctx)

\* C29: in a parallel broadcast the regions are visited in the declaration
\* order of P's children, and each region's guard evaluation and transition
\* run after the previous region's transition has completed, on the context
\* it left.
C29_RegionsInDeclarationOrder ==
    (/\ last.op = "Send" /\ Pre.started /\ InParallel(Pre)
     /\ ~HasEnabled(Pre.Value, last.event, Pre.Context))
        => /\ \A v, w \in Positions("visit") :
                 v < w => ChildIndex(Pre.Value, trace[v].st) < ChildIndex(Pre.Value, trace[w].st)
           /\ Sequential

\* Send(GO) visited r2, declared second, first: its guard isMarked saw the
\* unmarked context and r2 stayed, then r1's transition marked the context
C29_SecondRegionVisitedFirst ==
    /\ last.op = "Send" /\ last.event = "GO" /\ Pre.started /\ InParallel(Pre)
    /\ machine.ID = "par" /\ Pre.Value = "act"
    /\ ~Pre.Context.marked /\ Context.marked
    /\ Pre.ActiveInParallel["r2"] = "r2_idle" /\ ActiveInParallel["r2"] = "r2_idle"
    /\ trace[1].ph = "visit" /\ trace[1].st = "r2"
    /\ \E v \in Positions("visit") : v > 1 /\ trace[v].st = "r1"
    /\ \E k \in Positions("trans") : trace[k].st = "r1_idle"

\* state s lies in the subtree of region R
InSubtree(R, s) == s = R \/ ProperAncestor(R, s)

\* the regions that took a transition in the last broadcast
MovedRegions ==
    {trace[v].st : v \in {w \in Positions("visit") : Segment(w) \cap Positions("trans") # {}}}

\* C30: a transition taken inside region R during a broadcast is owned by a
\* state between R's leaf and R, runs exit and entry actions only of states
\* in R's subtree, and leaves unchanged the leaf, the active regions entries
\* of the other regions and the timers of the states outside R.
C30_RegionTransitionFrame ==
    (/\ last.op = "Send" /\ Pre.started /\ InParallel(Pre)
     /\ ~HasEnabled(Pre.Value, last.event, Pre.Context))
        => /\ \A v \in Positions("visit") : \A k \in Segment(v) :
                 /\ InSubtree(trace[v].st, trace[k].st)
                 /\ trace[k].ph = "trans" =>
                       (\/ trace[k].st = Pre.ActiveInParallel[trace[v].st]
                        \/ ProperAncestor(trace[k].st, Pre.ActiveInParallel[trace[v].st]))
           /\ Value = Pre.Value
           /\ \A R \in DOMAIN Pre.ActiveInParallel \ MovedRegions :
                 R \in DOMAIN ActiveInParallel /\ ActiveInParallel[R] = Pre.ActiveInParallel[R]
           /\ \A key \in DOMAIN Pre.timers \cup DOMAIN timers :
                 (\A R \in MovedRegions : ~InSubtree(R, key[1]))
                     => /\ key \in DOMAIN Pre.timers /\ key \in DOMAIN timers
                        /\ timers[key] = Pre.timers[key]

\* region ca's entry names cout, left there by ca1 -LEAVE-> cout; the next
\* broadcast takes cout -ENTER-> cp as region ca's transition and runs the
\* exit actions of cout, a state outside ca
C30_RegionTransitionOutsideRegion ==
    /\ last.op = "Send" /\ last.event = "ENTER" /\ machine.ID = "cross"
    /\ Pre.started /\ InParallel(Pre) /\ Pre.Value = "cp"
    /\ Pre.ActiveInParallel["ca"] = "cout"
    /\ MovedRegions = {"ca"}
    /\ \E k \in Positions("trans") : trace[k].st = "cout"
    /\ "cout" \in ExitedStates
    /\ ~InSubtree("ca", "cout")
    /\ ActiveInParallel["ca"] = "cp"

\* the transition a trace record of phase "trans" stands for
TransitionAt(k) == GetState(trace[k].st).Transitions[trace[k].idx]

\* C31: Send never executes a transition declared with After, whatever the
\* event type, the empty string included; a delayed transition is executed
\* only by the timer callback of that transition.
C31_SendNeverTakesDelayed ==
    \A k \in Positions("trans") :
        IsDelayed(TransitionAt(k))
            => /\ last.op = "TimerCallback"
               /\ last.source = Source(trace[k].st, trace[k].idx)

\* Send of an event with the empty type has taken the After transition of
\* child while its timer was still running
C31_EmptyEventTakesDelayed ==
    /\ last.op = "Send" /\ last.event = "" /\ machine.ID = "delayed"
    /\ Pre.started /\ Pre.Value = "child"
    /\ \E k \in Positions("trans") :
          trace[k].st = "child" /\ trace[k].idx = 1 /\ IsDelayed(TransitionAt(k))
    /\ TimerKey("child", 1) \in DOMAIN Pre.timers
    /\ Pre.timers[TimerKey("child", 1)] \notin fired \cup last.ran
    /\ Value = "done"

\* the last timer callback called time.AfterFunc
Rescheduled == \E k \in 1..Len(timerLog) : timerLog[k].call = "AfterFunc"

\* C33: when the callback of an After transition of s runs while the
\* interpreter is started and s is active, the guard is evaluated on the
\* context of that moment: if it passes the transition is executed, and if
\* it fails no action runs, the configuration is unchanged and the
\* transition is not scheduled again.
C33_GuardAtFiringTime ==
    (/\ last.op = "TimerCallback" /\ Pre.started
     /\ matchesUnlocked(Pre, last.source.state))
        => IF GuardTrue(TransitionOf(last.source), Pre.Context)
           THEN \E k \in Positions("trans") : Source(trace[k].st, trace[k].idx) = last.source
           ELSE /\ Positions("exit") \cup Positions("trans") \cup Positions("entry") = {}
                /\ SameConfiguration
                /\ LastKey \notin DOMAIN timers
                /\ ~Rescheduled

\* the timer of waiting's guarded After transition fired with the context
\* unmarked: the callback dropped the transition
C33_Witness ==
    /\ last.op = "TimerCallback" /\ Pre.started /\ machine.ID = "guarded"
    /\ last.source = Source("waiting", 1)
    /\ Pre.Value = "waiting" /\ ~Pre.Context.marked
    /\ TransitionOf(last.source).Guard = "isMarked"
    /\ trace = <<>>
    /\ Value = "waiting" /\ timers = EmptyMap

\* the compound states of the machine that own a delayed transition
CompoundTimerOwners ==
    {s \in DOMAIN M.States : GetState(s).Type = StateTypeCompound /\ OwnsTimer(s)}

\* the leaf of configuration c that lies under state s, "" if none
LeafUnder(c, s) ==
    IF IsDescendantOf(c.Value, s) THEN c.Value
    ELSE IF \E r \in DOMAIN c.ActiveInParallel : IsDescendantOf(c.ActiveInParallel[r], s)
         THEN c.ActiveInParallel[CHOOSE r \in DOMAIN c.ActiveInParallel :
                                    IsDescendantOf(c.ActiveInParallel[r], s)]
         ELSE ""

\* timer.Stop (time.AfterFunc) was called in the last operation on a timer of the key
StoppedKey(key) ==
    \E k \in 1..Len(timerLog) : timerLog[k].call = "Stop" /\ timerLog[k].timer.key = key
StartedKey(key) ==
    \E k \in 1..Len(timerLog) : timerLog[k].call = "AfterFunc" /\ timerLog[k].timer.key = key

\* C34: the timer of a compound state s follows the occupancy of s: a Send
\* or callback that neither exits nor enters s (and is not the callback of
\* that timer) neither cancels nor restarts it, one that exits s cancels it, and when
\* its callback executes the transition the first state exited is the leaf
\* that was current under s.
C34_CompoundTimerFollowsOccupancy ==
    TransitionOp =>
        \A s \in CompoundTimerOwners : \A key \in DelayedKeys(s) :
            /\ (s \notin ExitedStates /\ s \notin EnteredStates
                  /\ ~(last.op = "TimerCallback" /\ LastKey = key))
                  => /\ ~StoppedKey(key) /\ ~StartedKey(key)
                     /\ key \in DOMAIN Pre.timers
                           => (key \in DOMAIN timers /\ timers[key] = Pre.timers[key])
            /\ (s \in ExitedStates /\ key \in DOMAIN Pre.timers
                  /\ Pre.timers[key] \notin last.ran)
                  => \E k \in 1..Len(timerLog) :
                        timerLog[k].call = "Stop" /\ timerLog[k].timer = Pre.timers[key]
            /\ (last.op = "TimerCallback" /\ LastKey = key
                  /\ \E k \in Positions("trans") : Source(trace[k].st, trace[k].idx) = last.source)
                  => /\ Positions("exit") # {}
                     /\ \A k \in Positions("exit") :
                           (\A j \in Positions("exit") : k <= j)
                               => (trace[k].st = LeafUnder(Pre, s) /\ s \in ExitedStates)

\* the late callback of an earlier timer of working has exited working while
\* the timer of the current activation was registered: that timer was not
\* stopped and keeps running, unregistered
C34_ExitLeavesTimerRunning ==
    /\ last.op = "TimerCallback" /\ machine.ID = "hier"
    /\ last.source = Source("working", 2)
    /\ "working" \in ExitedStates
    /\ LastKey \in DOMAIN Pre.timers
    /\ Pre.timers[LastKey] \notin last.ran
    /\ ~StoppedKey(LastKey)
    /\ Pre.timers[LastKey] \in armed
    /\ LastKey \notin DOMAIN timers
    /\ Value = "paused"

(***************************************************************************)
(* C35: after every completed operation or timer callback, every entry     *)
(* (s, i) of the timer table names a state s that Matches reports active   *)
(* and a delayed transition i of s, and the table is empty whenever the    *)
(* interpreter is not started                                              *)
(***************************************************************************)
C35_TimerTableFollowsActiveStates ==
    /\ \A key \in DOMAIN timers :
          /\ HasState(key[1])
          /\ matchesUnlocked(Cur, key[1])
          /\ key[2] \in 1..Len(GetState(key[1]).Transitions)
          /\ IsDelayed(GetState(key[1]).Transitions[key[2]])
    /\ ~started => timers = EmptyMap

\* the parallel state xp was left after region xa had moved its leaf into
\* region xb: xa was not exited, and its timer is still registered although
\* Matches(xa) is false
C35_TimerOfInactiveStateRegistered ==
    /\ machine.ID = "rtimer"
    /\ last.op = "Send" /\ last.event = "CANCEL"
    /\ started
    /\ Value = "xout" /\ ActiveInParallel = EmptyMap
    /\ TimerKey("xa", 1) \in DOMAIN timers
    /\ ~matchesUnlocked(Cur, "xa")
    /\ "xa" \notin ExitedStates

(***************************************************************************)
(* C38: a transition that names a guard missing from the machine's guard   *)
(* registry is suppressed as if the guard had returned false: neither Send *)
(* nor a timer callback executes such a transition                         *)
(***************************************************************************)
NamesMissingGuard(t) == t.Guard # "" /\ t.Guard \notin M.Guards

C38_MissingGuardSuppresses ==
    TransitionOp =>
        \A k \in Positions("trans") : ~NamesMissingGuard(TransitionAt(k))

\* Send(GO) in la has taken the transition guarded by the unregistered guard
C38_SendTakesUnregisteredGuard ==
    /\ machine.ID = "loose"
    /\ last.op = "Send" /\ last.event = "GO"
    /\ Pre.started /\ Pre.Value = "la"
    /\ last.source = Source("la", 1)
    /\ NamesMissingGuard(TransitionOf(last.source))
    /\ \E k \in Positions("trans") : trace[k].st = "la" /\ trace[k].idx = 1
    /\ Value = "lb"

\* the callback of the timer of la has taken the delayed transition guarded
\* by the unregistered guard
C38_TimerTakesUnregisteredGuard ==
    /\ machine.ID = "loose"
    /\ last.op = "TimerCallback"
    /\ Pre.started /\ Pre.Value = "la"
    /\ last.source = Source("la", 2)
    /\ NamesMissingGuard(TransitionOf(last.source))
    /\ \E k \in Positions("trans") : trace[k].st = "la" /\ trace[k].idx = 2
    /\ Value = "lb"

(***************************************************************************)
(* C39: when the target of the winning transition names no state of the    *)
(* machine, nothing is executed: no exit, transition or entry action runs, *)
(* no timer is cancelled, and leaf, active regions and history are as      *)
(* before                                                                  *)
(***************************************************************************)
WinnerTargetsNoState ==
    /\ TransitionOp
    /\ last.source # NoSource
    /\ ~HasState(TransitionOf(last.source).Target)

C39_UnknownTargetIsNoTransition ==
    WinnerTargetsNoState =>
        /\ Positions("exit") \cup Positions("trans") \cup Positions("entry") = {}
        /\ \A k \in 1..Len(timerLog) : timerLog[k].call # "Stop"
        /\ Value = Pre.Value
        /\ ActiveInParallel = Pre.ActiveInParallel
        /\ shallowHistory = Pre.shallowHistory
        /\ deepHistory = Pre.deepHistory

\* Send(NEXT) in la, whose transition targets "nowhere": la was exited, its
\* timer stopped, the transition's action ran, and the leaf is now an id that
\* names no state
C39_LeafIsUnknownState ==
    /\ machine.ID = "loose"
    /\ last.op = "Send" /\ last.event = "NEXT"
    /\ Pre.started /\ Pre.Value = "la"
    /\ WinnerTargetsNoState
    /\ "la" \in ExitedStates
    /\ Positions("trans") # {}
    /\ \E k \in 1..Len(timerLog) :
          timerLog[k].call = "Stop" /\ timerLog[k].timer.key = TimerKey("la", 2)
    /\ Value = "nowhere" /\ ~HasState(Value)

(***************************************************************************)
(* C40: on a machine for which Validate reports no issue the parent chain  *)
(* of every state is acyclic and initial-state resolution terminates: the  *)
(* loop of GetAncestors (and with it GetPath, IsDescendantOf and FindLCA)  *)
(* and the recursion of GetInitialLeaf (and with it Start) never come back *)
(* to a state they have been at                                            *)
(***************************************************************************)
NoRepeat(seq) == \A i, j \in 1..Len(seq) : seq[i] = seq[j] => i = j

C40_ValidatedMachineWalksTerminate ==
    Validate(machine) = {} => NoRepeat(walk.seen)

\* Validate accepts the machine, and the loop of GetAncestors is back at the
\* state it started from: it runs forever
C40_ParentCycleAccepted ==
    /\ Validate(machine) = {}
    /\ walk.loop = "GetAncestors" /\ ~walk.done
    /\ Len(walk.seen) > 1
    /\ walk.seen[Len(walk.seen)] = walk.seen[1]
    /\ GetState(walk.at).Parent # ""

\* Validate accepts the machine, and the recursion of GetInitialLeaf is back
\* at the state it started from
C40_InitialCycleAccepted ==
    /\ Validate(machine) = {}
    /\ walk.loop = "GetInitialLeaf" /\ ~walk.done
    /\ Len(walk.seen) > 1
    /\ walk.seen[Len(walk.seen)] = walk.seen[1]

(***************************************************************************)
(* C37: the value State() returned is a snapshot: whatever Send, timer     *)
(* callback or UpdateContext runs afterwards, reading leaf, active regions *)
(* and context through that value gives what it gave when it was returned *)
(***************************************************************************)
C37_StateIsSnapshot ==
    snapshot.taken => snapshot.visible = snapshot.returned

\* State() was called inside the parallel state xp; a later Send(JUMP) moved
\* the leaf of region xa from xa1 to xb, and the value returned earlier now
\* shows xb
C37_SnapshotFollowsRegion ==
    /\ snapshot.taken /\ snapshot.shared
    /\ last.op = "Send" /\ last.event = "JUMP"
    /\ snapshot.returned.Value = "xp"
    /\ snapshot.returned.ActiveInParallel = Pre.ActiveInParallel
    /\ snapshot.returned.ActiveInParallel["xa"] = "xa1"
    /\ ActiveInParallel["xa"] = "xb"
    /\ snapshot.visible.ActiveInParallel["xa"] = "xb"

(***************************************************************************)
(* C32: operations on one interpreter never interleave: between the        *)
(* return of i.mu.Lock() and i.mu.Unlock() of one operation or timer       *)
(* callback no other one is past its own Lock, the one inside holds i.mu,  *)
(* and the fields it read are still as it read them when it writes; a      *)
(* callback that has the lock finishes before a Send gets in               *)
(***************************************************************************)
Inside(g) == pc[g].at \in {"timersLock", "timersHeld", "body", "mid", "unlock"}

C32_OperationsDoNotInterleave ==
    /\ \A g \in Goroutines : \A h \in Goroutines \ {g} : Inside(g) => ~Inside(h)
    /\ \A g \in Goroutines : Inside(g) => mu = g
    /\ \A g \in Goroutines : pc[g].at = "mid" => pc[g].seen = Fields

\* a timer callback is in the middle of its transition while a Send and a
\* Stop called on two other goroutines wait at i.mu.Lock()
C32_CallbackRunsWhileCallsWait ==
    /\ pc["timer"].at = "mid" /\ pc["timer"].op = "TimerCallback"
    /\ started /\ Value = "waiting" /\ Context.marked
    /\ pc["g1"].at = "lock" /\ pc["g1"].op = "Send"
    /\ pc["g2"].at = "lock" /\ pc["g2"].op = "Stop"
    /\ mu = "timer"

(***************************************************************************)
(* C36: i.timersMu is only ever taken by the goroutine that holds i.mu, so *)
(* the two locks are always acquired in the same order, and every call     *)
(* and every fired timer callback completes, whatever the interleaving     *)
(***************************************************************************)
LockOrder == timersMu # "" => mu = timersMu

C36_EveryCallCompletes ==
    /\ []LockOrder
    /\ \A g \in Goroutines : (pc[g].at # "idle") ~> (pc[g].at = "idle")
    /\ \A t \in LockTimers : (t \in fired) ~> (t \notin fired)

\* Stop holds both locks while the callback of a fired timer and a Send wait
\* for i.mu
C36_StopHoldsBothLocks ==
    /\ pc["g2"].op = "Stop" /\ pc["g2"].at = "timersHeld"
    /\ mu = "g2" /\ timersMu = "g2"
    /\ fired # {}
    /\ pc["timer"] = Idle
    /\ pc["g1"].at = "lock" /\ pc["g1"].op = "Send"

====
